---- MODULE Spec2Model ----
(***************************************************************************)
(* A model of the Figma plugin that rebinds colour variables to the "Web"  *)
(* library: the RequestQueue scheduler, withRetry, the two caches, the     *)
(* per-node pipeline and main.                                             *)
(*                                                                         *)
(* JavaScript runs one callback at a time.  An action of this model is one *)
(* event-loop turn: a host promise settling or a timer firing, followed by *)
(* the whole chain of continuations it resumes, up to the next remote call *)
(* or timer.  Continuations of one chain read and write the shared state   *)
(* (queue, activeCount, the caches) only in the places written here, so    *)
(* taking the chain as one step loses no interleaving.                     *)
(***************************************************************************)
EXTENDS Integers, Sequences, FiniteSets, TLC

(***************************************************************************)
(* Bounds of the model.                                                    *)
(***************************************************************************)
MaxTasks == 4
MaxConcurrency == 2
MaxRetries == 3
MaxFaults == 2
MaxLoads == 3

VARIABLES
  \* RequestQueue (part_000:17-45)
  maxConcurrency,   \* private maxConcurrency
  queue,            \* private queue: the pending tasks, head first
  activeCount,      \* private activeCount
  \* the tasks handed to enqueue, numbered in the order of the enqueue calls
  tstate,           \* task -> "New" | "Enqueued" | "Running" | "Succeeded" | "Failed"
  spawnedBy,        \* task -> 0 (the outside caller) or the running task that enqueued it
  admitOrder,       \* the tasks in the order next() started them
  wpc,              \* the caller of waitUntilEmpty: "idle" | "polling" | "returned"
  enqueuedWhile,    \* task -> what the caller of waitUntilEmpty was doing when it was enqueued
  \* one withRetry call (part_000:82-93)
  rt,
  \* the host (the figma object): what its calls answer, and the selected scene
  host,
  \* the run of the plugin
  pc,                      \* where main is: "init" | "catalog" | "firstImport" | "webColl" |
                           \* "polling" | "closed"; "harness" when no main runs
  load,                    \* the getWebLibraryData call that is loading the catalog
  mainCall,                \* the withRetry call main is waiting for
  cachedWebVariablesMap,   \* "null", or the Map as its entries in insertion order
  importedVariablesCache,  \* the Map key -> Variable, as a function
  webCollection,           \* "null", or the id of the collection main resolved
  notifications,           \* the messages passed to figma.notify, in order
  doc,                     \* node -> its fills, strokes and explicitVariableModes
  slotOps,                 \* task -> slot -> the processPaints call of that task
  modeOps,                 \* task -> the reassignVariableModes call of that task
  stats,                   \* counters of the remote requests made
  again,                   \* the run of the plugin on the same document: first or second
  chunkSize,               \* CHUNK_SIZE of the build that runs
  \* one getAllNodesInSelection call (part_000:50-64)
  flat

qvars == <<maxConcurrency, queue, activeCount, tstate, spawnedBy, admitOrder, wpc, enqueuedWhile>>
retryVars == <<rt>>
runVars == <<host, pc, load, mainCall, cachedWebVariablesMap, importedVariablesCache,
             webCollection, notifications, doc, slotOps, modeOps, stats, again,
             chunkSize>>
flatVars == <<flat>>
vars == <<qvars, retryVars, runVars, flatVars>>

Tasks == 1..MaxTasks
Terminal == {"Succeeded", "Failed"}

(***************************************************************************)
(* RequestQueue                                                            *)
(***************************************************************************)

\* The queue object as a record; admitted is the task next() started, 0 if none.
QueueObj == [queue |-> queue, activeCount |-> activeCount, admitted |-> 0]

\* A plausible bug: next() without the occupancy test.
nextNoLimit(q, max) ==
  IF Len(q.queue) = 0
    THEN [q EXCEPT !.admitted = 0]
    ELSE [queue |-> Tail(q.queue), activeCount |-> q.activeCount + 1, admitted |-> Head(q.queue)]

\* A plausible bug: next() takes the newest pending task (pop instead of shift).
nextLifo(q, max) ==
  IF q.activeCount >= max \/ Len(q.queue) = 0
    THEN [q EXCEPT !.admitted = 0]
    ELSE [queue |-> SubSeq(q.queue, 1, Len(q.queue) - 1),
          activeCount |-> q.activeCount + 1,
          admitted |-> q.queue[Len(q.queue)]]

\* RequestQueue.next: start the head of the queue if a slot is free.
next(q, max) ==
  IF q.activeCount >= max \/ Len(q.queue) = 0
    THEN [q EXCEPT !.admitted = 0]
    ELSE [queue |-> Tail(q.queue), activeCount |-> q.activeCount + 1, admitted |-> Head(q.queue)]

\* RequestQueue.enqueue: push, then next().
enqueue(q, max, t) == next([q EXCEPT !.queue = Append(q.queue, t)], max)

\* The callback of fn().finally: free the slot, then next().
onFinally(q, max) == next([q EXCEPT !.activeCount = q.activeCount - 1], max)

\* A plausible bug: the loop of waitUntilEmpty tests activeCount >= 0.
drainedNever(q) == ~(q.activeCount >= 0 \/ Len(q.queue) > 0)

\* A plausible bug: waitUntilEmpty looks at the pending list only.
drainedQueueOnly(q) == Len(q.queue) = 0

\* The exit test of the loop of waitUntilEmpty.
drained(q) == ~(q.activeCount > 0 \/ Len(q.queue) > 0)

\* The number of enqueue calls so far.
Enqueued == Cardinality({t \in Tasks : tstate[t] # "New"})

\* Write the queue object back, and mark the task it started.
SetQueue(q, ts) ==
  /\ queue' = q.queue
  /\ activeCount' = q.activeCount
  /\ tstate' = IF q.admitted = 0 THEN ts ELSE [ts EXCEPT ![q.admitted] = "Running"]
  /\ admitOrder' = IF q.admitted = 0 THEN admitOrder ELSE Append(admitOrder, q.admitted)

(***************************************************************************)
(* withRetry                                                               *)
(***************************************************************************)

\* error.status of a rejection: 429 (rate limited), another status, or 0 for an
\* error that carries no status.
RATE_LIMITED == 429
ErrorStatuses == {RATE_LIMITED, 500, 0}

\* A plausible bug: the guard counts attempts, not retries (retries > 1).
withRetryCatchOffByOne(retries, delayMs, status) ==
  IF retries > 1 /\ status = RATE_LIMITED
    THEN [retry |-> TRUE, wait |-> delayMs, retries |-> retries - 1, delayMs |-> delayMs * 2]
    ELSE [retry |-> FALSE, wait |-> 0, retries |-> retries, delayMs |-> delayMs]

\* The catch block of withRetry: wait delayMs and call withRetry(fn, retries - 1,
\* delayMs * 2), or rethrow.
withRetryCatch(retries, delayMs, status) ==
  IF retries > 0 /\ status = RATE_LIMITED
    THEN [retry |-> TRUE, wait |-> delayMs, retries |-> retries - 1, delayMs |-> delayMs * 2]
    ELSE [retry |-> FALSE, wait |-> 0, retries |-> retries, delayMs |-> delayMs]

\* The default parameters of withRetry.
DEFAULT_RETRIES == 3
DEFAULT_DELAY_MS == 1000

\* The constants of the plugin.
CHUNK_SIZE == 50
MAX_CONCURRENT_REQUESTS == 5

(***************************************************************************)
(* The host: variables, collections, the library, the scene                *)
(***************************************************************************)

Keys == {"ka", "kb"}
NullVar == [id |-> "null", name |-> "", variableCollectionId |-> "", inst |-> 0]

\* figma.variables.importVariableByKeyAsync(key); inst tells the objects of
\* different calls apart.
ImportOf(key, inst) ==
  IF key = "ka"
    THEN [id |-> "wa", name |-> "a", variableCollectionId |-> "Web", inst |-> inst]
    ELSE [id |-> "wb", name |-> "b", variableCollectionId |-> "Web", inst |-> inst]

\* figma.variables.getVariableByIdAsync(id); null for an id the file does not know.
VariableById(id) ==
  CASE id = "va" -> [id |-> "va", name |-> "a", variableCollectionId |-> "Old", inst |-> 0]
    [] id = "vb" -> [id |-> "vb", name |-> "b", variableCollectionId |-> "Old", inst |-> 0]
    [] id = "vx" -> [id |-> "vx", name |-> "x", variableCollectionId |-> "Old", inst |-> 0]
    [] id = "wa" -> ImportOf("ka", 0)
    [] id = "wb" -> ImportOf("kb", 0)
    [] OTHER -> NullVar

\* figma.variables.getVariableCollectionByIdAsync(id); "null" for an unknown id.
CollectionById(id) == IF id \in {"Old", "Old2", "Web"} THEN id ELSE "null"

ZeroStats ==
  [getCalls |-> 0, lateCalls |-> 0, loads |-> 0, libsRequests |-> 0, varsRequests |-> 0,
   importRequests |-> [k \in Keys |-> 0], importOk |-> [k \in Keys |-> 0],
   imports |-> 0, resolveRequests |-> 0, collectionRequests |-> 0,
   slotWrites |-> 0, modeWrites |-> 0, chunks |-> 0, faults |-> 0]

NoHost ==
  [file |-> "part_000", api |-> FALSE, libraries |-> <<>>, libVars |-> <<>>,
   selection |-> <<>>, nodes |-> <<>>, doc0 |-> <<>>]

NullMap == [null |-> TRUE, entries |-> <<>>]
IdleCall == [st |-> "idle", retries |-> 0, delayMs |-> 0]
IdleLoad == [pc |-> "idle", call |-> IdleCall, failed |-> FALSE, threw |-> FALSE]

\* The plugin has not been run on the document before.
FirstRun == [pass |-> 1, doc |-> <<>>, slotWrites |-> 0]

\* No plugin run: the state of the run's variables in the specifications of the
\* single components.
NoRun ==
  /\ host = NoHost
  /\ pc = "harness"
  /\ load = IdleLoad
  /\ mainCall = IdleCall
  /\ cachedWebVariablesMap = NullMap
  /\ importedVariablesCache = [k \in Keys |-> NullVar]
  /\ webCollection = "null"
  /\ notifications = <<>>
  /\ doc = <<>>
  /\ slotOps = <<>>
  /\ modeOps = <<>>
  /\ stats = ZeroStats
  /\ again = FirstRun
  /\ chunkSize = CHUNK_SIZE

RtIdle == [pc |-> "idle"]

\* No getAllNodesInSelection call is observed.
FlatIdle == [pc |-> "idle", result |-> <<>>]

\* withRetry(fn, retries, delayMs) has just been called and has called fn().
\* retries0 and delay0 keep the arguments of the outermost call; attempts counts
\* the calls of fn, waits lists the delays waited, failures the error.status of
\* each rejection, thrown the attempt whose error withRetry rethrew (0: none).
RetryInit ==
  /\ \E r \in 0..MaxRetries, d \in {DEFAULT_DELAY_MS, 250, 1} :
       rt = [pc |-> "inflight", retries |-> r, delayMs |-> d, retries0 |-> r, delay0 |-> d,
             attempts |-> 1, waits |-> <<>>, failures |-> <<>>, thrown |-> 0]
  /\ NoRun
  /\ flat = FlatIdle
  /\ maxConcurrency = 1
  /\ queue = <<>>
  /\ activeCount = 0
  /\ tstate = [t \in Tasks |-> "New"]
  /\ spawnedBy = [t \in Tasks |-> 0]
  /\ admitOrder = <<>>
  /\ wpc = "idle"
  /\ enqueuedWhile = [t \in Tasks |-> "never"]

\* fn() fulfils: withRetry returns its value.
FnFulfils ==
  /\ rt.pc = "inflight"
  /\ rt' = [rt EXCEPT !.pc = "returned"]
  /\ UNCHANGED <<qvars, runVars, flatVars>>

\* fn() rejects with an error of the given status: the catch block runs.
FnRejects(status) ==
  /\ rt.pc = "inflight"
  /\ LET c == withRetryCatch(rt.retries, rt.delayMs, status)
         failures == Append(rt.failures, status) IN
       rt' = IF c.retry
               THEN [rt EXCEPT !.pc = "waiting", !.retries = c.retries, !.delayMs = c.delayMs,
                               !.waits = Append(rt.waits, c.wait), !.failures = failures]
               ELSE [rt EXCEPT !.pc = "thrown", !.failures = failures, !.thrown = rt.attempts]
  /\ UNCHANGED <<qvars, runVars, flatVars>>

\* The timer of wait(delayMs) fires: the inner withRetry calls fn() again.
RetryTimer ==
  /\ rt.pc = "waiting"
  /\ rt' = [rt EXCEPT !.pc = "inflight", !.attempts = rt.attempts + 1]
  /\ UNCHANGED <<qvars, runVars, flatVars>>

RetryNext ==
  \/ FnFulfils
  \/ \E status \in ErrorStatuses : FnRejects(status)
  \/ RetryTimer

RetrySpec == RetryInit /\ [][RetryNext]_vars

\* A queue just built by new RequestQueue(C), C >= 1; no withRetry call.
QInit ==
  /\ rt = RtIdle
  /\ flat = FlatIdle
  /\ NoRun
  /\ maxConcurrency \in 1..MaxConcurrency
  /\ queue = <<>>
  /\ activeCount = 0
  /\ tstate = [t \in Tasks |-> "New"]
  /\ spawnedBy = [t \in Tasks |-> 0]
  /\ admitOrder = <<>>
  /\ wpc = "idle"
  /\ enqueuedWhile = [t \in Tasks |-> "never"]

\* The outside caller calls enqueue(fn).
Enqueue ==
  /\ Enqueued < MaxTasks
  /\ LET t == Enqueued + 1 IN
       /\ SetQueue(enqueue(QueueObj, maxConcurrency, t), [tstate EXCEPT ![t] = "Enqueued"])
       /\ enqueuedWhile' = [enqueuedWhile EXCEPT ![t] = wpc]
       /\ UNCHANGED <<maxConcurrency, spawnedBy, wpc, retryVars, runVars, flatVars>>

\* A running task calls enqueue(fn) from its body.
TaskEnqueue(p) ==
  /\ tstate[p] = "Running"
  /\ Enqueued < MaxTasks
  /\ LET t == Enqueued + 1 IN
       /\ SetQueue(enqueue(QueueObj, maxConcurrency, t), [tstate EXCEPT ![t] = "Enqueued"])
       /\ spawnedBy' = [spawnedBy EXCEPT ![t] = p]
       /\ enqueuedWhile' = [enqueuedWhile EXCEPT ![t] = wpc]
       /\ UNCHANGED <<maxConcurrency, wpc, retryVars, runVars, flatVars>>

\* The promise of a running task settles (fulfilled or rejected); finally runs.
Complete(t, how) ==
  /\ tstate[t] = "Running"
  /\ SetQueue(onFinally(QueueObj, maxConcurrency), [tstate EXCEPT ![t] = how])
  /\ UNCHANGED <<maxConcurrency, spawnedBy, wpc, enqueuedWhile, retryVars, runVars, flatVars>>

\* waitUntilEmpty is called: the loop test runs at once.
WaitCall ==
  /\ wpc = "idle"
  /\ wpc' = IF drained(QueueObj) THEN "returned" ELSE "polling"
  /\ UNCHANGED <<maxConcurrency, queue, activeCount, tstate, spawnedBy, admitOrder, enqueuedWhile>>
  /\ UNCHANGED <<retryVars, runVars, flatVars>>

\* The 100 ms timer of waitUntilEmpty fires: the loop test runs again.
WaitPoll ==
  /\ wpc = "polling"
  /\ wpc' = IF drained(QueueObj) THEN "returned" ELSE "polling"
  /\ UNCHANGED <<maxConcurrency, queue, activeCount, tstate, spawnedBy, admitOrder, enqueuedWhile>>
  /\ UNCHANGED <<retryVars, runVars, flatVars>>

QNext ==
  \/ Enqueue
  \/ \E p \in Tasks : TaskEnqueue(p)
  \/ \E t \in Tasks, how \in Terminal : Complete(t, how)
  \/ WaitCall
  \/ WaitPoll

QSpec == QInit /\ [][QNext]_vars

(***************************************************************************)
(* The run: its state as one record, so that the chain of continuations of *)
(* one event-loop turn is a composition of operators on it.                *)
(***************************************************************************)

RunObj ==
  [pc |-> pc, wpc |-> wpc, load |-> load, mainCall |-> mainCall,
   cachedWebVariablesMap |-> cachedWebVariablesMap,
   importedVariablesCache |-> importedVariablesCache,
   webCollection |-> webCollection, notifications |-> notifications, doc |-> doc,
   slotOps |-> slotOps, modeOps |-> modeOps, stats |-> stats,
   queue |-> queue, activeCount |-> activeCount, tstate |-> tstate, admitOrder |-> admitOrder]

SetRun(R) ==
  /\ pc' = R.pc
  /\ wpc' = R.wpc
  /\ load' = R.load
  /\ mainCall' = R.mainCall
  /\ cachedWebVariablesMap' = R.cachedWebVariablesMap
  /\ importedVariablesCache' = R.importedVariablesCache
  /\ webCollection' = R.webCollection
  /\ notifications' = R.notifications
  /\ doc' = R.doc
  /\ slotOps' = R.slotOps
  /\ modeOps' = R.modeOps
  /\ stats' = R.stats
  /\ queue' = R.queue
  /\ activeCount' = R.activeCount
  /\ tstate' = R.tstate
  /\ admitOrder' = R.admitOrder
  /\ UNCHANGED <<host, maxConcurrency, spawnedBy, enqueuedWhile, rt, flat, again, chunkSize>>

Range(f) == {f[i] : i \in DOMAIN f}

\* withRetry(fn) with the default parameters has called fn().
NewCall == [st |-> "inflight", retries |-> DEFAULT_RETRIES, delayMs |-> DEFAULT_DELAY_MS]

\* A remote call made without withRetry (code.ts): a failure is thrown at once.
DirectCall == [st |-> "inflight", retries |-> 0, delayMs |-> 0]

\* fn() rejected with the given status: withRetry waits, or rethrows.
rejected(call, status) ==
  LET c == withRetryCatch(call.retries, call.delayMs, status) IN
    IF c.retry
      THEN [st |-> "waiting", retries |-> c.retries, delayMs |-> c.delayMs]
      ELSE [call EXCEPT !.st = "thrown"]

\* figma.notify(message); figma.closePlugin().
notifyAndClose(R, message) ==
  [R EXCEPT !.notifications = Append(@, message), !.pc = "closed"]

(***************************************************************************)
(* getAllNodesInSelection and isNestedInInstance                           *)
(***************************************************************************)

\* A plausible bug: the children go to the front of the queue (unshift for push),
\* which visits depth first.
RECURSIVE bfsDepthFirst(_, _)
bfsDepthFirst(q, result) ==
  IF Len(q) = 0
    THEN result
    ELSE LET node == Head(q) IN
           bfsDepthFirst((IF host.nodes[node].container THEN host.nodes[node].children ELSE <<>>)
                           \o Tail(q),
                         Append(result, node))

\* The loop of getAllNodesInSelection: shift the head, push it to the result and
\* push its children to the queue.
RECURSIVE bfs(_, _)
bfs(q, result) ==
  IF Len(q) = 0
    THEN result
    ELSE LET node == Head(q) IN
           bfs(Tail(q) \o (IF host.nodes[node].container THEN host.nodes[node].children ELSE <<>>),
               Append(result, node))

getAllNodesInSelection(selection) == bfs(selection, <<>>)

allNodes == getAllNodesInSelection(host.selection)

RECURSIVE hasInstanceFrom(_)
hasInstanceFrom(current) ==
  IF current = 0
    THEN FALSE
    ELSE IF host.nodes[current].type = "INSTANCE"
           THEN TRUE
           ELSE hasInstanceFrom(host.nodes[current].parent)

\* A plausible bug: only the parent is tested, not the whole chain.
isNestedInInstanceParentOnly(node) ==
  /\ host.nodes[node].parent # 0
  /\ host.nodes[host.nodes[node].parent].type = "INSTANCE"

\* isNestedInInstance: the chain of parents holds an INSTANCE.
isNestedInInstance(node) == hasInstanceFrom(host.nodes[node].parent)

(***************************************************************************)
(* The caches                                                              *)
(***************************************************************************)

\* A plausible bug: an empty catalogue counts as not loaded.
cacheHitNonEmpty(map) == ~map.null /\ Len(map.entries) > 0

\* if (cachedWebVariablesMap) return cachedWebVariablesMap;
cacheHit(map) == ~map.null

\* Map.set(libVar.name, libVar): a new name is appended, a known one is replaced
\* in place.
mapSet(entries, libVar) ==
  IF \E i \in DOMAIN entries : entries[i].name = libVar.name
    THEN [i \in DOMAIN entries |-> IF entries[i].name = libVar.name THEN libVar ELSE entries[i]]
    ELSE Append(entries, libVar)

RECURSIVE fillMap(_, _)
fillMap(entries, libVars) ==
  IF Len(libVars) = 0
    THEN entries
    ELSE fillMap(mapSet(entries, Head(libVars)), Tail(libVars))

mapHas(entries, name) == \E i \in DOMAIN entries : entries[i].name = name
mapGet(entries, name) == entries[CHOOSE i \in DOMAIN entries : entries[i].name = name]

\* A plausible bug: the import cache is never hit.
cacheHasNever(cache, key) == FALSE

\* importedVariablesCache.has(key)
cacheHas(cache, key) == cache[key].id # "null"

\* importedVariablesCache.set(key, imported): Map.set replaces an existing entry.
cacheSet(cache, key, imported) == [cache EXCEPT ![key] = imported]

\* A plausible bug: a failed import drops the whole cache.
importFailedClears(cache, key) == [k \in Keys |-> NullVar]

\* The catch block of getImportedVariable: nothing is stored, null is returned.
importFailed(cache, key) == cache

\* A plausible bug: no variable is recognised as one of the Web collection.
isFromWebCollectionNever(variable, webCollectionId) == FALSE

\* isFromWebCollection
isFromWebCollection(variable, webCollectionId) ==
  variable.variableCollectionId = webCollectionId

\* The import of key succeeds: a new Variable object, stored and returned.
importSucceeded(R, key) ==
  LET imported == ImportOf(key, R.stats.imports + 1) IN
    [R EXCEPT !.importedVariablesCache = cacheSet(@, key, imported),
              !.stats.imports = @ + 1,
              !.stats.importOk[key] = @ + 1]

(***************************************************************************)
(* processPaints, reassignVariableModes, processSingleNode                 *)
(***************************************************************************)

Slots == {"fills", "strokes"}
Settled == {"kept", "rebound"}

IdleSlot == [st |-> "idle", paints |-> <<>>, entries |-> <<>>]
IdleTask == [phase |-> "idle", modes |-> <<>>, lookups |-> <<>>]

\* One closure of paints.map up to its first await.
startEntry(paint) ==
  IF paint.type # "SOLID" \/ paint.bound = "none"
    THEN [st |-> "kept", call |-> IdleCall, key |-> "", ret |-> NullVar, paint |-> paint]
    ELSE [st |-> "resolving", call |-> NewCall, key |-> "", ret |-> NullVar, paint |-> paint]

\* processPaints(node, slot) up to the await of Promise.all.
startSlot(R, node, slot) ==
  IF slot \notin host.nodes[node].caps
    THEN [st |-> "done", paints |-> <<>>, entries |-> <<>>]
    ELSE LET paints == R.doc[node][slot] IN
           [st |-> "pending", paints |-> paints,
            entries |-> [i \in DOMAIN paints |-> startEntry(paints[i])]]

Resolving(op) == Cardinality({i \in DOMAIN op.entries : op.entries[i].st = "resolving"})

\* The task of node allNodes[k] starts: processSingleNode calls processPaints
\* for both slots.
startTask(R, k) ==
  LET node == allNodes[k]
      f == startSlot(R, node, "fills")
      g == startSlot(R, node, "strokes") IN
    [R EXCEPT !.slotOps[k] = [fills |-> f, strokes |-> g],
              !.modeOps[k] = [IdleTask EXCEPT !.phase = "paints"],
              !.stats.resolveRequests = @ + Resolving(f) + Resolving(g)]

\* setBoundVariableForPaint(paint, 'color', imported)
setBoundVariableForPaint(paint, imported) == [paint EXCEPT !.bound = imported.id]

\* The closure after getVariableByIdAsync answered: up to the import request, or
\* to its return.
entryResolved(R, k, slot, i) ==
  LET e == R.slotOps[k][slot].entries[i]
      variable == VariableById(e.paint.bound)
      entries == R.cachedWebVariablesMap.entries
      keep == [R EXCEPT !.slotOps[k][slot].entries[i].st = "kept",
                        !.slotOps[k][slot].entries[i].call = IdleCall] IN
    IF variable.id = "null"
      THEN keep
      ELSE IF R.webCollection # "null" /\ isFromWebCollection(variable, R.webCollection)
        THEN keep
        ELSE IF ~mapHas(entries, variable.name)
          THEN keep
          ELSE LET key == mapGet(entries, variable.name).key IN
            IF cacheHas(R.importedVariablesCache, key)
              THEN LET imported == R.importedVariablesCache[key] IN
                [R EXCEPT !.slotOps[k][slot].entries[i] =
                   [st |-> "rebound", call |-> IdleCall, key |-> key, ret |-> imported,
                    paint |-> setBoundVariableForPaint(e.paint, imported)]]
              ELSE
                [R EXCEPT !.slotOps[k][slot].entries[i] =
                   [st |-> "importing", call |-> NewCall, key |-> key, ret |-> NullVar,
                    paint |-> e.paint],
                          !.stats.importRequests[key] = @ + 1]

\* The closure after importVariableByKeyAsync answered.
entryImported(R, k, slot, i) ==
  LET e == R.slotOps[k][slot].entries[i]
      R1 == importSucceeded(R, e.key)
      imported == ImportOf(e.key, R1.stats.imports) IN
    [R1 EXCEPT !.slotOps[k][slot].entries[i] =
       [st |-> "rebound", call |-> IdleCall, key |-> e.key, ret |-> imported,
        paint |-> setBoundVariableForPaint(e.paint, imported)]]

\* A remote call of the closure rejected: withRetry waits or rethrows; a thrown
\* resolution rejects the closure, a thrown import makes getImportedVariable
\* return null.
entryRejected(R, k, slot, i, status) ==
  LET e == R.slotOps[k][slot].entries[i]
      c == rejected(e.call, status) IN
    IF c.st = "waiting"
      THEN [R EXCEPT !.slotOps[k][slot].entries[i].call = c]
      ELSE IF e.st = "resolving"
        THEN [R EXCEPT !.slotOps[k][slot].entries[i].st = "failed",
                       !.slotOps[k][slot].entries[i].call = IdleCall]
        ELSE [R EXCEPT !.slotOps[k][slot].entries[i].st = "kept",
                       !.slotOps[k][slot].entries[i].call = IdleCall,
                       !.importedVariablesCache = importFailed(@, e.key)]

\* A plausible bug: the old override is not cleared.
clearModeKeeps(modes, coll) == modes

\* clearExplicitVariableModeForCollection(coll) on a mapping.
clearMode(modes, coll) == SelectSeq(modes, LAMBDA m : m.coll # coll)

\* setExplicitVariableModeForCollection(coll, modeId) on a mapping.
setMode(modes, coll, modeId) ==
  IF \E i \in DOMAIN modes : modes[i].coll = coll
    THEN [i \in DOMAIN modes |-> IF modes[i].coll = coll THEN [coll |-> coll, mode |-> modeId] ELSE modes[i]]
    ELSE Append(modes, [coll |-> coll, mode |-> modeId])

\* collections.forEach(coll => { if (coll) clear(coll) })
RECURSIVE clearAll(_, _)
clearAll(modes, lookups) ==
  IF Len(lookups) = 0
    THEN modes
    ELSE clearAll(IF Head(lookups).result # "null" THEN clearMode(modes, Head(lookups).result) ELSE modes,
                  Tail(lookups))

\* Object.values(modes).forEach(modeId => set(webCollection, modeId))
RECURSIVE setAll(_, _, _)
setAll(modes, snapshot, coll) ==
  IF Len(snapshot) = 0
    THEN modes
    ELSE setAll(setMode(modes, coll, Head(snapshot).mode), Tail(snapshot), coll)

Found(lookups) == Cardinality({i \in DOMAIN lookups : lookups[i].result # "null"})

\* The queue object inside the record of the run.
RunQueue(R) == [queue |-> R.queue, activeCount |-> R.activeCount, admitted |-> 0]

\* The task's promise settles and the finally callback runs: the slot is freed
\* and next() may start the head of the queue, whose body runs to its first await.
finishTask(R, k, how) ==
  LET q == onFinally(RunQueue(R), maxConcurrency)
      R1 == [R EXCEPT !.tstate[k] = how, !.modeOps[k].phase = "done",
                      !.queue = q.queue, !.activeCount = q.activeCount] IN
    IF q.admitted = 0
      THEN R1
      ELSE startTask([R1 EXCEPT !.tstate[q.admitted] = "Running",
                                !.admitOrder = Append(@, q.admitted)],
                     q.admitted)

\* A plausible bug: the error of processSingleNode leaves the task's wrapper and
\* the slot is freed on fulfilment only.
nodeFailedKeepsSlot(R, k) == [R EXCEPT !.tstate[k] = "Failed", !.modeOps[k].phase = "done"]

\* processSingleNode threw: the wrapper of processNodesInChunks catches the error,
\* so the task's promise fulfils; the node is marked Failed.
nodeFailed(R, k) == finishTask(R, k, "Failed")

\* processSingleNode after both processPaints calls returned: the test of
\* isNestedInInstance, and reassignVariableModes up to the await of Promise.all.
startModes(R, k) ==
  LET node == allNodes[k]
      modes == R.doc[node].modes IN
    IF isNestedInInstance(node) \/ "modes" \notin host.nodes[node].caps \/ Len(modes) = 0
      THEN finishTask(R, k, "Succeeded")
      ELSE [R EXCEPT !.modeOps[k] =
              [phase |-> "lookups", modes |-> modes,
               lookups |-> [j \in DOMAIN modes |->
                              [coll |-> modes[j].coll, call |-> NewCall, result |-> "null"]]],
                     !.stats.collectionRequests = @ + Len(modes)]

\* reassignVariableModes after Promise.all: clear what was found, then set every
\* mode of the old mapping on webCollection.
finishModes(R, k) ==
  LET node == allNodes[k]
      t == R.modeOps[k]
      cleared == clearAll(R.doc[node].modes, t.lookups)
      R1 == [R EXCEPT !.doc[node].modes = cleared,
                      !.stats.modeWrites = @ + Found(t.lookups)] IN
    IF R.webCollection = "null"
      THEN finishTask(R1, k, "Succeeded")
      ELSE finishTask([R1 EXCEPT !.doc[node].modes = setAll(cleared, t.modes, R.webCollection),
                                 !.stats.modeWrites = @ + Len(t.modes)],
                      k, "Succeeded")

\* Promise.all of a processPaints call rejects: one closure threw.
SlotRejects(R, k, slot) ==
  /\ R.slotOps[k][slot].st = "pending"
  /\ \E i \in DOMAIN R.slotOps[k][slot].entries : R.slotOps[k][slot].entries[i].st = "failed"

\* Promise.all of a processPaints call fulfils: every closure returned.
SlotFulfils(R, k, slot) ==
  /\ R.slotOps[k][slot].st = "pending"
  /\ \A i \in DOMAIN R.slotOps[k][slot].entries : R.slotOps[k][slot].entries[i].st \in Settled

\* processPaints after Promise.all: the slot is written if the paints changed.
finishSlot(R, k, slot) ==
  LET op == R.slotOps[k][slot]
      updatedPaints == [i \in DOMAIN op.entries |-> op.entries[i].paint]
      paintsChanged == op.paints # updatedPaints IN
    IF paintsChanged
      THEN [R EXCEPT !.slotOps[k][slot].st = "done",
                     !.doc[allNodes[k]][slot] = updatedPaints,
                     !.stats.slotWrites = @ + 1]
      ELSE [R EXCEPT !.slotOps[k][slot].st = "done"]

RunTasks(R) == DOMAIN R.tstate

\* The continuations that are ready to run, as <<kind, task, slot>>.
Ready(R) ==
  {c \in {<<"slotRejects", k, s>> : k \in RunTasks(R), s \in Slots} : SlotRejects(R, c[2], c[3])}
  \cup {c \in {<<"slotFulfils", k, s>> : k \in RunTasks(R), s \in Slots} : SlotFulfils(R, c[2], c[3])}
  \cup {<<"nodeFails", k, "">> : k \in {k \in RunTasks(R) :
          /\ R.tstate[k] = "Running"
          /\ R.modeOps[k].phase = "paints"
          /\ \E s \in Slots : R.slotOps[k][s].st = "rejected"}}
  \cup {<<"paintsDone", k, "">> : k \in {k \in RunTasks(R) :
          /\ R.tstate[k] = "Running"
          /\ R.modeOps[k].phase = "paints"
          /\ \A s \in Slots : R.slotOps[k][s].st = "done"}}
  \cup {<<"lookupsDone", k, "">> : k \in {k \in RunTasks(R) :
          /\ R.tstate[k] = "Running"
          /\ R.modeOps[k].phase = "lookups"
          /\ \A j \in DOMAIN R.modeOps[k].lookups : R.modeOps[k].lookups[j].call.st = "idle"}}

\* Run one ready continuation.
runReady(R, c) ==
  CASE c[1] = "slotRejects" -> [R EXCEPT !.slotOps[c[2]][c[3]].st = "rejected"]
    [] c[1] = "slotFulfils" -> finishSlot(R, c[2], c[3])
    [] c[1] = "nodeFails" -> nodeFailed(R, c[2])
    [] c[1] = "paintsDone" -> startModes(R, c[2])
    [] c[1] = "lookupsDone" -> finishModes(R, c[2])

\* Run the ready continuations until none is left (the microtask queue drains
\* before the next host event).  They commute: each touches the slots and the
\* node of its own task, and tasks leave the pending list in its order.
RECURSIVE settle(_)
settle(R) ==
  IF R.pc = "closed" \/ Ready(R) = {}
    THEN R
    ELSE settle(runReady(R, CHOOSE c \in Ready(R) : TRUE))

(***************************************************************************)
(* getWebLibraryData                                                       *)
(***************************************************************************)

WEB_LIBRARY_NAME == "Web"

\* The remote calls of the load: through withRetry in part_000, direct in code.ts.
LoadCall == IF host.file = "code.ts" THEN DirectCall ELSE NewCall

\* getWebLibraryData up to its first await, or to its return.
getWebLibraryData(R) ==
  IF cacheHit(R.cachedWebVariablesMap)
    THEN R
    ELSE LET R1 == [R EXCEPT !.cachedWebVariablesMap = [null |-> FALSE, entries |-> <<>>],
                             !.stats.loads = @ + 1] IN
      IF ~host.api
        THEN [R1 EXCEPT !.load = [IdleLoad EXCEPT !.pc = "done"]]
        ELSE [R1 EXCEPT !.load = [IdleLoad EXCEPT !.pc = "libs", !.call = LoadCall],
                        !.stats.libsRequests = @ + 1]

\* A remote call of the load answered.
loadOk(R) ==
  IF R.load.pc = "libs"
    THEN IF WEB_LIBRARY_NAME \in Range(host.libraries)
      THEN [R EXCEPT !.load.pc = "vars", !.load.call = LoadCall,
                     !.stats.varsRequests = @ + 1]
      ELSE [R EXCEPT !.load.pc = "done", !.load.call = IdleCall]
    ELSE [R EXCEPT !.cachedWebVariablesMap.entries = fillMap(@, host.libVars),
                   !.load.pc = "done", !.load.call = IdleCall]

\* A remote call of the load rejected: withRetry waits, or the error is caught
\* (part_000; code.ts lets it reach the caller) and the empty Map stays.
loadRejected(R, status) ==
  LET c == rejected(R.load.call, status) IN
    IF c.st = "waiting"
      THEN [R EXCEPT !.load.call = c]
      ELSE [R EXCEPT !.load.pc = "done", !.load.call = IdleCall, !.load.failed = TRUE,
                     !.load.threw = (host.file = "code.ts")]

(***************************************************************************)
(* processNodesInChunks and main                                           *)
(***************************************************************************)

Min(a, b) == IF a < b THEN a ELSE b

\* chunk.forEach(node => requestQueue.enqueue(...)) for the tasks first..last.
RECURSIVE enqueueChunk(_, _, _)
enqueueChunk(R, first, last) ==
  IF first > last
    THEN R
    ELSE LET q == enqueue(RunQueue(R), maxConcurrency, first)
             R1 == [R EXCEPT !.queue = q.queue, !.activeCount = q.activeCount,
                             !.tstate[first] = IF q.admitted = 0 THEN "Enqueued" ELSE "Running",
                             !.admitOrder = IF q.admitted = 0 THEN @ ELSE Append(@, q.admitted)] IN
           enqueueChunk(IF q.admitted = 0 THEN R1 ELSE startTask(R1, q.admitted), first + 1, last)

\* A plausible bug: slice(i, i + CHUNK_SIZE - 1) loses the last node of a chunk.
RECURSIVE chunkLoopShortSlice(_, _, _)
chunkLoopShortSlice(R, i, size) ==
  IF i < Len(allNodes)
    THEN chunkLoopShortSlice([enqueueChunk(R, i + 1, Min(i + size - 1, Len(allNodes)))
                                EXCEPT !.stats.chunks = @ + 1],
                             i + size, size)
    ELSE R

\* for (let i = 0; i < nodes.length; i += CHUNK_SIZE)
RECURSIVE chunkLoop(_, _, _)
chunkLoop(R, i, size) ==
  IF i < Len(allNodes)
    THEN chunkLoop([enqueueChunk(R, i + 1, Min(i + size, Len(allNodes)))
                      EXCEPT !.stats.chunks = @ + 1],
                   i + size, size)
    ELSE R

\* processNodesInChunks up to the first test of waitUntilEmpty, and the end of
\* main if the queue is drained already.
processNodesInChunks(R) ==
  LET R1 == chunkLoop(R, 0, chunkSize) IN
    IF drained(RunQueue(R1))
      THEN notifyAndClose([R1 EXCEPT !.wpc = "returned"], "success")
      ELSE settle([R1 EXCEPT !.pc = "polling", !.wpc = "polling"])

\* main after getImportedVariable(firstLibVar) returned.
afterFirstImport(R, imported) ==
  IF imported.id # "null"
    THEN [R EXCEPT !.pc = "webColl", !.mainCall = NewCall,
                   !.stats.collectionRequests = @ + 1]
    ELSE processNodesInChunks([R EXCEPT !.mainCall = IdleCall])

\* main from "let webCollection = null": getImportedVariable(firstLibVar) if the
\* Map has a first value.
resolveWebCollection(R) ==
  LET entries == R.cachedWebVariablesMap.entries IN
    IF Len(entries) = 0
      THEN processNodesInChunks(R)
      ELSE LET key == entries[1].key IN
        IF cacheHas(R.importedVariablesCache, key)
          THEN afterFirstImport(R, R.importedVariablesCache[key])
          ELSE [R EXCEPT !.pc = "firstImport", !.mainCall = NewCall,
                         !.stats.importRequests[key] = @ + 1]

\* A plausible bug: main goes on with an empty catalogue.
afterCatalogNoAbort(R) == resolveWebCollection(R)

\* A plausible bug: the return after the notification of an empty catalogue is
\* missing, and main goes on.
afterCatalogNoReturn(R) ==
  IF Len(R.cachedWebVariablesMap.entries) = 0
    THEN resolveWebCollection([R EXCEPT !.notifications = Append(@, "catalog-not-found")])
    ELSE resolveWebCollection(R)

\* main after getWebLibraryData returned: an empty catalogue ends the run.
afterCatalog(R) ==
  IF Len(R.cachedWebVariablesMap.entries) = 0
    THEN notifyAndClose(R, "catalog-not-found")
    ELSE resolveWebCollection(R)

\* The load has returned: main goes on if it is the caller.
resumeMain(R) ==
  IF R.pc = "catalog" /\ R.load.pc = "done" THEN afterCatalog(R) ELSE R

\* The top-level test of the selection, and main up to its first await.
start(R) ==
  IF Len(host.selection) = 0
    THEN notifyAndClose(R, "empty-selection")
    ELSE IF Len(allNodes) = 0
      THEN notifyAndClose(R, "no-nodes")
      ELSE resumeMain([getWebLibraryData([R EXCEPT !.stats.getCalls = @ + 1])
                         EXCEPT !.pc = "catalog"])

\* The remote call main waits for answered.
mainCallOk(R) ==
  LET key == R.cachedWebVariablesMap.entries[1].key IN
    IF R.pc = "firstImport"
      THEN LET R1 == importSucceeded(R, key) IN
             afterFirstImport(R1, R1.importedVariablesCache[key])
      ELSE processNodesInChunks(
             [R EXCEPT !.mainCall = IdleCall,
                       !.webCollection =
                          CollectionById(R.importedVariablesCache[key].variableCollectionId)])

\* The remote call main waits for rejected: withRetry waits, or the error is
\* caught and main goes on without the value.
mainCallRejected(R, status) ==
  LET c == rejected(R.mainCall, status)
      key == R.cachedWebVariablesMap.entries[1].key IN
    IF c.st = "waiting"
      THEN [R EXCEPT !.mainCall = c]
      ELSE IF R.pc = "firstImport"
        THEN afterFirstImport([R EXCEPT !.importedVariablesCache = importFailed(@, key)], NullVar)
        ELSE processNodesInChunks([R EXCEPT !.mainCall = IdleCall])

(***************************************************************************)
(* The hosts and scenes of the runs                                        *)
(***************************************************************************)

Solid(bound) == [type |-> "SOLID", bound |-> bound]
Image == [type |-> "IMAGE", bound |-> "none"]
Mode(coll, mode) == [coll |-> coll, mode |-> mode]

\* A node: container says whether it has children, caps which of fills, strokes
\* and explicitVariableModes it has.
Node(type, parent, children, caps) ==
  [type |-> type, parent |-> parent, container |-> type \in {"FRAME", "INSTANCE"},
   children |-> children, caps |-> caps]
Attrs(fills, strokes, modes) == [fills |-> fills, strokes |-> strokes, modes |-> modes]

\* No layer is selected.
SceneEmpty == [selection |-> <<>>, nodes |-> <<>>, doc0 |-> <<>>]

\* A frame with an override, holding an instance (with a nested text) and a
\* rectangle; two nodes are bound to the variable named b.
SceneTree ==
  [selection |-> <<1>>,
   nodes |-> << Node("FRAME", 0, <<2, 3>>, {"fills", "modes"}),
                Node("INSTANCE", 1, <<4>>, {"fills", "strokes"}),
                Node("RECTANGLE", 1, <<>>, {"fills", "modes"}),
                Node("TEXT", 2, <<>>, {"fills", "modes"}) >>,
   doc0 |-> << Attrs(<<Solid("vb")>>, <<>>, <<Mode("Old", "m1")>>),
               Attrs(<<Image, Solid("vb")>>, <<Solid("vx")>>, <<>>),
               Attrs(<<Solid("gone")>>, <<>>, <<>>),
               Attrs(<<Solid("wa")>>, <<>>, <<Mode("Old", "m2")>>) >>]

\* One node with two overrides, one of a collection the file no longer has.
SceneModes ==
  [selection |-> <<1, 2>>,
   nodes |-> << Node("RECTANGLE", 0, <<>>, {"fills", "strokes", "modes"}),
                Node("RECTANGLE", 0, <<>>, {"fills", "strokes"}) >>,
   doc0 |-> << Attrs(<<Solid("va")>>, <<Solid("vb")>>, <<Mode("Old", "m1"), Mode("Lost", "m2")>>),
               Attrs(<<Solid("vb"), Solid("vb")>>, <<Solid("none")>>, <<>>) >>]

\* More nodes than the queue runs at once: a bound frame of four bound
\* rectangles and a group without paints.
SceneMany ==
  [selection |-> <<1>>,
   nodes |-> [n \in 1..6 |->
                IF n = 1 THEN Node("FRAME", 0, <<2, 3, 4, 5, 6>>, {"fills"})
                ELSE IF n = 6 THEN Node("GROUP", 1, <<>>, {})
                ELSE Node("RECTANGLE", 1, <<>>, {"fills"})],
   doc0 |-> [n \in 1..6 |->
               IF n = 6 THEN Attrs(<<>>, <<>>, <<>>) ELSE Attrs(<<Solid("va")>>, <<>>, <<>>)]]

\* A selected instance with an override; inside it a frame and, in the frame, a
\* rectangle, both with overrides of their own.
SceneNested ==
  [selection |-> <<1>>,
   nodes |-> << Node("INSTANCE", 0, <<2>>, {"fills", "modes"}),
                Node("FRAME", 1, <<3>>, {"modes"}),
                Node("RECTANGLE", 2, <<>>, {"fills", "strokes", "modes"}) >>,
   doc0 |-> << Attrs(<<Solid("va")>>, <<>>, <<Mode("Old", "m1")>>),
               Attrs(<<>>, <<>>, <<Mode("Old", "m2")>>),
               Attrs(<<Solid("vb")>>, <<>>, <<Mode("Old", "m3")>>) >>]

Scenes == {SceneEmpty, SceneTree, SceneModes, SceneMany, SceneNested}

LibVar(name, key) == [name |-> name, key |-> key]

\* What the library calls of the host answer.
Libraries ==
  { [api |-> FALSE, libraries |-> <<>>, libVars |-> <<>>],
    [api |-> TRUE, libraries |-> <<"Mobile">>, libVars |-> <<>>],
    [api |-> TRUE, libraries |-> <<"Mobile", "Web">>, libVars |-> <<>>],
    [api |-> TRUE, libraries |-> <<"Web">>, libVars |-> <<LibVar("a", "ka"), LibVar("b", "kb")>>] }

HostOf(file, lib, scene) ==
  [file |-> file, api |-> lib.api, libraries |-> lib.libraries, libVars |-> lib.libVars,
   selection |-> scene.selection, nodes |-> scene.nodes, doc0 |-> scene.doc0]

(***************************************************************************)
(* The run of the plugin (part_000)                                        *)
(***************************************************************************)

RunInit ==
  /\ rt = RtIdle
  /\ flat = FlatIdle
  /\ host \in {HostOf("part_000", lib, scene) : lib \in Libraries, scene \in Scenes}
  /\ pc = "init"
  /\ load = IdleLoad
  /\ mainCall = IdleCall
  /\ cachedWebVariablesMap = NullMap
  /\ importedVariablesCache = [k \in Keys |-> NullVar]
  /\ webCollection = "null"
  /\ notifications = <<>>
  /\ doc = host.doc0
  /\ slotOps = [k \in DOMAIN allNodes |-> [fills |-> IdleSlot, strokes |-> IdleSlot]]
  /\ modeOps = [k \in DOMAIN allNodes |-> IdleTask]
  /\ stats = ZeroStats
  /\ again = FirstRun
  /\ chunkSize = CHUNK_SIZE
  /\ maxConcurrency = MAX_CONCURRENT_REQUESTS
  /\ queue = <<>>
  /\ activeCount = 0
  /\ tstate = [k \in DOMAIN allNodes |-> "New"]
  /\ spawnedBy = [k \in DOMAIN allNodes |-> 0]
  /\ admitOrder = <<>>
  /\ wpc = "idle"
  /\ enqueuedWhile = [k \in DOMAIN allNodes |-> "idle"]

\* The host may still fail a call.
MayFail == stats.faults < MaxFaults
Fault(R) == [R EXCEPT !.stats.faults = @ + 1]
RunStatuses == {RATE_LIMITED, 500}

\* The plugin is loaded: the selection test, and main up to its first await.
Start ==
  /\ pc = "init"
  /\ SetRun(start(RunObj))

\* getAvailableLibraryVariableCollectionsAsync or
\* getVariablesInLibraryCollectionAsync answers.
LoadOk ==
  /\ pc # "closed"
  /\ load.pc \in {"libs", "vars"}
  /\ load.call.st = "inflight"
  /\ SetRun(resumeMain(loadOk(RunObj)))

LoadRejects(status) ==
  /\ pc # "closed"
  /\ load.pc \in {"libs", "vars"}
  /\ load.call.st = "inflight"
  /\ MayFail
  /\ SetRun(resumeMain(loadRejected(Fault(RunObj), status)))

LoadTimer ==
  /\ pc # "closed"
  /\ load.call.st = "waiting"
  /\ SetRun([RunObj EXCEPT !.load.call.st = "inflight"])

\* importVariableByKeyAsync(firstLibVar.key) or getVariableCollectionByIdAsync of
\* main answers.
MainCallOk ==
  /\ pc \in {"firstImport", "webColl"}
  /\ mainCall.st = "inflight"
  /\ SetRun(mainCallOk(RunObj))

MainCallRejects(status) ==
  /\ pc \in {"firstImport", "webColl"}
  /\ mainCall.st = "inflight"
  /\ MayFail
  /\ SetRun(mainCallRejected(Fault(RunObj), status))

MainTimer ==
  /\ pc \in {"firstImport", "webColl"}
  /\ mainCall.st = "waiting"
  /\ SetRun([RunObj EXCEPT !.mainCall.st = "inflight"])

\* getVariableByIdAsync of a paint closure answers.
EntryResolveOk(k, slot, i) ==
  /\ pc = "polling"
  /\ i \in DOMAIN slotOps[k][slot].entries
  /\ slotOps[k][slot].entries[i].st = "resolving"
  /\ slotOps[k][slot].entries[i].call.st = "inflight"
  /\ SetRun(settle(entryResolved(RunObj, k, slot, i)))

\* importVariableByKeyAsync of a paint closure answers.
EntryImportOk(k, slot, i) ==
  /\ pc = "polling"
  /\ i \in DOMAIN slotOps[k][slot].entries
  /\ slotOps[k][slot].entries[i].st = "importing"
  /\ slotOps[k][slot].entries[i].call.st = "inflight"
  /\ SetRun(settle(entryImported(RunObj, k, slot, i)))

\* A remote call of a paint closure rejects.
EntryRejects(k, slot, i, status) ==
  /\ pc = "polling"
  /\ i \in DOMAIN slotOps[k][slot].entries
  /\ slotOps[k][slot].entries[i].call.st = "inflight"
  /\ MayFail
  /\ SetRun(settle(entryRejected(Fault(RunObj), k, slot, i, status)))

\* The backoff timer of a paint closure fires: fn() is called again.
EntryTimer(k, slot, i) ==
  /\ pc = "polling"
  /\ i \in DOMAIN slotOps[k][slot].entries
  /\ slotOps[k][slot].entries[i].call.st = "waiting"
  /\ SetRun([RunObj EXCEPT !.slotOps[k][slot].entries[i].call.st = "inflight"])

\* getVariableCollectionByIdAsync of reassignVariableModes answers.
LookupOk(k, j) ==
  /\ pc = "polling"
  /\ j \in DOMAIN modeOps[k].lookups
  /\ modeOps[k].lookups[j].call.st = "inflight"
  /\ SetRun(settle([RunObj EXCEPT !.modeOps[k].lookups[j].call = IdleCall,
                                  !.modeOps[k].lookups[j].result =
                                     CollectionById(modeOps[k].lookups[j].coll)]))

\* It rejects: withRetry waits, or the error is caught and the entry is null.
LookupRejects(k, j, status) ==
  /\ pc = "polling"
  /\ j \in DOMAIN modeOps[k].lookups
  /\ modeOps[k].lookups[j].call.st = "inflight"
  /\ MayFail
  /\ LET c == rejected(modeOps[k].lookups[j].call, status) IN
       SetRun(settle([Fault(RunObj) EXCEPT !.modeOps[k].lookups[j].call =
                                             IF c.st = "waiting" THEN c ELSE IdleCall]))

LookupTimer(k, j) ==
  /\ pc = "polling"
  /\ j \in DOMAIN modeOps[k].lookups
  /\ modeOps[k].lookups[j].call.st = "waiting"
  /\ SetRun([RunObj EXCEPT !.modeOps[k].lookups[j].call.st = "inflight"])

\* The 100 ms timer of waitUntilEmpty fires in main: the loop test runs again,
\* and main ends once the queue is drained.
Poll ==
  /\ pc = "polling"
  /\ SetRun(IF drained(RunQueue(RunObj))
              THEN notifyAndClose([RunObj EXCEPT !.wpc = "returned"], "success")
              ELSE RunObj)

MaxEntries == 2

Next ==
  \/ Start
  \/ LoadOk
  \/ \E status \in RunStatuses : LoadRejects(status)
  \/ LoadTimer
  \/ MainCallOk
  \/ \E status \in RunStatuses : MainCallRejects(status)
  \/ MainTimer
  \/ \E k \in DOMAIN tstate, slot \in Slots, i \in 1..MaxEntries : EntryResolveOk(k, slot, i)
  \/ \E k \in DOMAIN tstate, slot \in Slots, i \in 1..MaxEntries : EntryImportOk(k, slot, i)
  \/ \E k \in DOMAIN tstate, slot \in Slots, i \in 1..MaxEntries, status \in RunStatuses :
       EntryRejects(k, slot, i, status)
  \/ \E k \in DOMAIN tstate, slot \in Slots, i \in 1..MaxEntries : EntryTimer(k, slot, i)
  \/ \E k \in DOMAIN tstate, j \in 1..MaxEntries : LookupOk(k, j)
  \/ \E k \in DOMAIN tstate, j \in 1..MaxEntries, status \in RunStatuses : LookupRejects(k, j, status)
  \/ \E k \in DOMAIN tstate, j \in 1..MaxEntries : LookupTimer(k, j)
  \/ Poll

Spec == RunInit /\ [][Next]_vars

(***************************************************************************)
(* getWebLibraryData called any number of times (part_000 and code.ts)     *)
(***************************************************************************)

CatInit ==
  /\ rt = RtIdle
  /\ flat = FlatIdle
  /\ host \in {HostOf(file, lib, SceneEmpty) : file \in {"part_000", "code.ts"}, lib \in Libraries}
  /\ pc = "harness"
  /\ load = IdleLoad
  /\ mainCall = IdleCall
  /\ cachedWebVariablesMap = NullMap
  /\ importedVariablesCache = [k \in Keys |-> NullVar]
  /\ webCollection = "null"
  /\ notifications = <<>>
  /\ doc = <<>>
  /\ slotOps = <<>>
  /\ modeOps = <<>>
  /\ stats = ZeroStats
  /\ again = FirstRun
  /\ chunkSize = CHUNK_SIZE
  /\ maxConcurrency = MAX_CONCURRENT_REQUESTS
  /\ queue = <<>>
  /\ activeCount = 0
  /\ tstate = <<>>
  /\ spawnedBy = <<>>
  /\ admitOrder = <<>>
  /\ wpc = "idle"
  /\ enqueuedWhile = <<>>

\* Some caller calls getWebLibraryData().
GetWebLibraryData ==
  /\ pc = "harness"
  /\ stats.getCalls < MaxLoads
  /\ SetRun(getWebLibraryData(
       [RunObj EXCEPT !.stats.getCalls = @ + 1,
                      !.stats.lateCalls = IF load.pc = "done" THEN @ + 1 ELSE @]))

CatNext ==
  \/ GetWebLibraryData
  \/ LoadOk
  \/ \E status \in RunStatuses : LoadRejects(status)
  \/ LoadTimer

CatSpec == CatInit /\ [][CatNext]_vars

(***************************************************************************)
(* The plugin run twice on the same document                               *)
(***************************************************************************)

\* The scenes whose nodes the first run rebinds, and the library that has the
\* variables.
TwiceInit ==
  /\ rt = RtIdle
  /\ flat = FlatIdle
  /\ host \in {HostOf("part_000", lib, scene) :
                lib \in {l \in Libraries : l.libVars # <<>>}, scene \in {SceneTree, SceneModes}}
  /\ pc = "init"
  /\ load = IdleLoad
  /\ mainCall = IdleCall
  /\ cachedWebVariablesMap = NullMap
  /\ importedVariablesCache = [k \in Keys |-> NullVar]
  /\ webCollection = "null"
  /\ notifications = <<>>
  /\ doc = host.doc0
  /\ slotOps = [k \in DOMAIN allNodes |-> [fills |-> IdleSlot, strokes |-> IdleSlot]]
  /\ modeOps = [k \in DOMAIN allNodes |-> IdleTask]
  /\ stats = ZeroStats
  /\ again = FirstRun
  /\ chunkSize = CHUNK_SIZE
  /\ maxConcurrency = MAX_CONCURRENT_REQUESTS
  /\ queue = <<>>
  /\ activeCount = 0
  /\ tstate = [k \in DOMAIN allNodes |-> "New"]
  /\ spawnedBy = [k \in DOMAIN allNodes |-> 0]
  /\ admitOrder = <<>>
  /\ wpc = "idle"
  /\ enqueuedWhile = [k \in DOMAIN allNodes |-> "idle"]

\* The user runs the plugin again on the selection after a run that ended with
\* "success": the module is loaded anew (empty caches, a new RequestQueue), the
\* document is as the first run left it.
RunAgain ==
  /\ pc = "closed"
  /\ notifications = <<"success">>
  /\ again.pass = 1
  /\ again' = [pass |-> 2, doc |-> doc, slotWrites |-> stats.slotWrites]
  /\ pc' = "init"
  /\ load' = IdleLoad
  /\ mainCall' = IdleCall
  /\ cachedWebVariablesMap' = NullMap
  /\ importedVariablesCache' = [k \in Keys |-> NullVar]
  /\ webCollection' = "null"
  /\ notifications' = <<>>
  /\ slotOps' = [k \in DOMAIN allNodes |-> [fills |-> IdleSlot, strokes |-> IdleSlot]]
  /\ modeOps' = [k \in DOMAIN allNodes |-> IdleTask]
  /\ queue' = <<>>
  /\ activeCount' = 0
  /\ tstate' = [k \in DOMAIN allNodes |-> "New"]
  /\ admitOrder' = <<>>
  /\ wpc' = "idle"
  /\ UNCHANGED <<host, doc, stats, maxConcurrency, spawnedBy, enqueuedWhile, rt, flat, chunkSize>>

TwiceNext ==
  \/ Next
  \/ RunAgain

TwiceSpec == TwiceInit /\ [][TwiceNext]_vars

(***************************************************************************)
(* Runs with other chunk sizes, on flat selections, the host answering     *)
(* every call                                                              *)
(***************************************************************************)

MaxFlat == 7
MaxChunk == 3

\* n selected rectangles, each with one fill bound to the variable named a (the
\* variable main imports first, so that the tasks find it in the import cache);
\* the first has a stroke bound to it as well.
SceneFlat(n) ==
  [selection |-> [i \in 1..n |-> i],
   nodes |-> [i \in 1..n |-> Node("RECTANGLE", 0, <<>>, {"fills", "strokes"})],
   doc0 |-> [i \in 1..n |->
               Attrs(<<Solid("va")>>, IF i = 1 THEN <<Solid("va")>> ELSE <<>>, <<>>)]]

ChunkSizes == (1..MaxChunk) \cup {CHUNK_SIZE}

ChunkInit ==
  /\ rt = RtIdle
  /\ flat = FlatIdle
  /\ host \in {HostOf("part_000", lib, scene) :
                lib \in {l \in Libraries : l.libVars # <<>>},
                scene \in {SceneFlat(n) : n \in 1..MaxFlat}}
  /\ chunkSize \in ChunkSizes
  /\ pc = "init"
  /\ load = IdleLoad
  /\ mainCall = IdleCall
  /\ cachedWebVariablesMap = NullMap
  /\ importedVariablesCache = [k \in Keys |-> NullVar]
  /\ webCollection = "null"
  /\ notifications = <<>>
  /\ doc = host.doc0
  /\ slotOps = [k \in DOMAIN allNodes |-> [fills |-> IdleSlot, strokes |-> IdleSlot]]
  /\ modeOps = [k \in DOMAIN allNodes |-> IdleTask]
  /\ stats = ZeroStats
  /\ again = FirstRun
  /\ maxConcurrency = MAX_CONCURRENT_REQUESTS
  /\ queue = <<>>
  /\ activeCount = 0
  /\ tstate = [k \in DOMAIN allNodes |-> "New"]
  /\ spawnedBy = [k \in DOMAIN allNodes |-> 0]
  /\ admitOrder = <<>>
  /\ wpc = "idle"
  /\ enqueuedWhile = [k \in DOMAIN allNodes |-> "idle"]

ChunkNext ==
  \/ Start
  \/ LoadOk
  \/ MainCallOk
  \/ \E k \in DOMAIN tstate, slot \in Slots, i \in 1..MaxEntries : EntryResolveOk(k, slot, i)
  \/ Poll

ChunkSpec == ChunkInit /\ [][ChunkNext]_vars

(***************************************************************************)
(* getAllNodesInSelection on the forests of up to MaxNodes nodes            *)
(***************************************************************************)

MaxNodes == 5

\* The elements of a set of numbers, ascending.
RECURSIVE Ascending(_)
Ascending(S) ==
  IF S = {} THEN <<>>
  ELSE LET m == CHOOSE x \in S : \A y \in S : x <= y IN <<m>> \o Ascending(S \ {m})

Reverse(seq) == [i \in DOMAIN seq |-> seq[Len(seq) + 1 - i]]

\* The forest of n nodes in which parentOf[i] < i is the parent of node i (0 for a
\* root); siblings and roots are listed by ascending number, or descending.  A
\* node with children is a FRAME; a leaf is a FRAME without children or a node
\* that has no children property.
Forest(n, parentOf, descending) ==
  LET listed(S) == IF descending THEN Reverse(Ascending(S)) ELSE Ascending(S)
      kids(i) == listed({j \in 1..n : parentOf[j] = i}) IN
    [selection |-> kids(0),
     nodes |-> [i \in 1..n |->
                  Node(IF kids(i) # <<>> \/ i % 2 = 0 THEN "FRAME" ELSE "RECTANGLE",
                       parentOf[i], kids(i), {})],
     doc0 |-> [i \in 1..n |-> Attrs(<<>>, <<>>, <<>>)]]

Forests ==
  UNION {{Forest(n, parentOf, descending) :
            parentOf \in {f \in [1..n -> 0..(n - 1)] : \A i \in 1..n : f[i] < i},
            descending \in BOOLEAN} : n \in 1..MaxNodes}

FlatInit ==
  /\ rt = RtIdle
  /\ flat = FlatIdle
  /\ host \in {HostOf("part_000", [api |-> FALSE, libraries |-> <<>>, libVars |-> <<>>], scene) :
                scene \in Forests}
  /\ pc = "harness"
  /\ load = IdleLoad
  /\ mainCall = IdleCall
  /\ cachedWebVariablesMap = NullMap
  /\ importedVariablesCache = [k \in Keys |-> NullVar]
  /\ webCollection = "null"
  /\ notifications = <<>>
  /\ doc = host.doc0
  /\ slotOps = <<>>
  /\ modeOps = <<>>
  /\ stats = ZeroStats
  /\ again = FirstRun
  /\ chunkSize = CHUNK_SIZE
  /\ maxConcurrency = MAX_CONCURRENT_REQUESTS
  /\ queue = <<>>
  /\ activeCount = 0
  /\ tstate = <<>>
  /\ spawnedBy = <<>>
  /\ admitOrder = <<>>
  /\ wpc = "idle"
  /\ enqueuedWhile = <<>>

\* getAllNodesInSelection(figma.currentPage.selection) is called and returns.
Flatten ==
  /\ flat.pc = "idle"
  /\ flat' = [pc |-> "returned", result |-> getAllNodesInSelection(host.selection)]
  /\ UNCHANGED <<qvars, retryVars, runVars>>

FlatNext == Flatten

FlatSpec == FlatInit /\ [][FlatNext]_vars

(***************************************************************************)
(* Claims about RequestQueue, under QSpec.                                 *)
(***************************************************************************)

Running == {t \in Tasks : tstate[t] = "Running"}

\* C1: activeCount is the number of running tasks, it stays within
\* 0..maxConcurrency, and it equals maxConcurrency whenever a task is pending.
C1_BoundedOccupancy ==
  /\ activeCount = Cardinality(Running)
  /\ activeCount >= 0
  /\ activeCount <= maxConcurrency
  /\ Len(queue) > 0 => activeCount = maxConcurrency

\* A slot was freed and refilled from the pending list, and tasks still wait.
C1_Witness ==
  /\ Len(queue) > 0
  /\ activeCount = maxConcurrency
  /\ Len(admitOrder) > maxConcurrency
  /\ \E t \in Tasks : tstate[t] \in Terminal

\* C2: in the step in which waitUntilEmpty returns, no task enqueued so far is
\* Enqueued or Running.
C2_DrainCompleteness ==
  [][(wpc # "returned" /\ wpc' = "returned")
       => \A t \in Tasks : tstate'[t] \notin {"Enqueued", "Running"}]_vars

\* waitUntilEmpty has returned after polling, and one of the finished tasks was
\* enqueued by a running task while the caller was waiting.
C2_Witness ==
  /\ wpc = "returned"
  /\ \E t \in Tasks :
       /\ spawnedBy[t] # 0
       /\ enqueuedWhile[t] = "polling"
       /\ tstate[t] \in Terminal

\* C3: tasks are started in the order of their enqueue calls (tasks are numbered
\* by enqueue call, so the k-th task started is task k).
C3_FifoAdmission == \A i \in 1..Len(admitOrder) : admitOrder[i] = i

\* Some task waited in the pending list before it was started, and a task
\* enqueued later has finished while an earlier one is still running.
C3_Witness ==
  /\ Len(admitOrder) > maxConcurrency
  /\ \E t1, t2 \in Tasks : t1 < t2 /\ tstate[t1] = "Running" /\ tstate[t2] \in Terminal

(***************************************************************************)
(* Claims about withRetry, under RetrySpec.                                *)
(***************************************************************************)

RECURSIVE Pow2(_)
Pow2(n) == IF n = 0 THEN 1 ELSE 2 * Pow2(n - 1)

AllRateLimited == \A i \in 1..Len(rt.failures) : rt.failures[i] = RATE_LIMITED

\* The waits so far are d, 2d, 4d, ...
Backoff == \A i \in 1..Len(rt.waits) : rt.waits[i] = rt.delay0 * Pow2(i - 1)

\* C5 as stated: an operation that always fails with status 429 is called
\* exactly maxAttempts = retries times, with waits d, 2d, 4d, ... between the
\* calls; one that fails otherwise is called once, with no wait.
C5_Original ==
  /\ (rt.pc = "thrown" /\ AllRateLimited)
       => rt.attempts = rt.retries0 /\ Len(rt.waits) = rt.attempts - 1 /\ Backoff
  /\ (Len(rt.failures) >= 1 /\ rt.failures[1] # RATE_LIMITED)
       => rt.pc = "thrown" /\ rt.attempts = 1 /\ rt.waits = <<>> /\ rt.thrown = 1

\* C5 (amended): an operation that always fails with status 429 is called exactly
\* retries + 1 times, with the retries waits d, 2d, 4d, ... between the calls, and
\* the last failure is rethrown; an operation whose failure has another status
\* (or none) is called once, with no wait, and that failure is rethrown.
C5_RetryBound ==
  /\ rt.attempts <= rt.retries0 + 1
  /\ Len(rt.waits) = rt.attempts - (IF rt.pc = "waiting" THEN 0 ELSE 1)
  /\ Backoff
  /\ (rt.pc = "thrown" /\ AllRateLimited)
       => rt.attempts = rt.retries0 + 1 /\ Len(rt.waits) = rt.retries0 /\ rt.thrown = rt.attempts
  /\ (Len(rt.failures) >= 1 /\ rt.failures[1] # RATE_LIMITED)
       => rt.pc = "thrown" /\ rt.attempts = 1 /\ rt.waits = <<>> /\ rt.thrown = 1

\* withRetry(fn) with the default parameters has given up on an operation that
\* was rate limited every time: four calls, after waits of 1000, 2000 and 4000.
C5_Witness ==
  /\ rt.pc = "thrown"
  /\ rt.retries0 = DEFAULT_RETRIES
  /\ rt.delay0 = DEFAULT_DELAY_MS
  /\ AllRateLimited
  /\ rt.attempts = 4
  /\ rt.waits = <<1000, 2000, 4000>>

(***************************************************************************)
(* Claims about the catalogue, under CatSpec.                              *)
(***************************************************************************)

EmptyMap == [null |-> FALSE, entries |-> <<>>]

\* The load found nothing to fill the catalogue with.
NothingLoaded ==
  \/ ~host.api
  \/ WEB_LIBRARY_NAME \notin Range(host.libraries)
  \/ load.failed

\* C9: at most one call of getWebLibraryData loads (asks for the libraries or for
\* the variables), however many calls are made; once the load has finished the
\* catalogue never changes; and a load that found no API, no library named Web
\* or a failing fetch leaves the catalogue an empty Map.
C9_CatalogFillOnce ==
  /\ [](/\ stats.loads <= 1
        /\ stats.libsRequests <= 1
        /\ stats.varsRequests <= 1
        /\ (load.pc = "done" /\ NothingLoaded) => cachedWebVariablesMap = EmptyMap)
  /\ [][load.pc = "done" => /\ cachedWebVariablesMap' = cachedWebVariablesMap
                            /\ load' = load]_vars

\* The one fetch of a load failed, the catalogue is empty, and calls made after
\* the load ended did not load again.
C9_Witness ==
  /\ load.pc = "done"
  /\ load.failed
  /\ host.libVars # <<>>
  /\ cachedWebVariablesMap = EmptyMap
  /\ stats.lateCalls >= 2
  /\ stats.libsRequests = 1

(***************************************************************************)
(* Claims about the run, under Spec.                                       *)
(***************************************************************************)

RunningTasks == {k \in DOMAIN tstate : tstate[k] = "Running"}
CatalogEmpty == load.pc = "done" /\ Len(cachedWebVariablesMap.entries) = 0

\* C10: once the catalogue is loaded and empty, the run has ended with the one
\* notification "catalog-not-found"; no task was enqueued, no variable was
\* imported or resolved, no collection was looked up and no node was written.
C10_EmptyCatalogAbort ==
  CatalogEmpty =>
    /\ pc = "closed"
    /\ notifications = <<"catalog-not-found">>
    /\ \A k \in DOMAIN tstate : tstate[k] = "New"
    /\ queue = <<>> /\ activeCount = 0 /\ admitOrder = <<>>
    /\ \A key \in Keys : stats.importRequests[key] = 0
    /\ stats.resolveRequests = 0
    /\ stats.collectionRequests = 0
    /\ stats.slotWrites = 0 /\ stats.modeWrites = 0
    /\ doc = host.doc0

\* A run over bound nodes ended on an empty catalogue although the library Web
\* was listed.
C10_Witness ==
  /\ CatalogEmpty
  /\ pc = "closed"
  /\ WEB_LIBRARY_NAME \in Range(host.libraries)
  /\ Len(allNodes) > 1

\* A task still has a remote call or a backoff timer pending.
Pending(k) ==
  \/ \E slot \in Slots : \E i \in DOMAIN slotOps[k][slot].entries :
        slotOps[k][slot].entries[i].call.st \in {"inflight", "waiting"}
  \/ \E j \in DOMAIN modeOps[k].lookups : modeOps[k].lookups[j].call.st \in {"inflight", "waiting"}

\* C4: once a node's processing has failed, its slot is free (activeCount counts
\* the running tasks only), pending tasks wait for nothing but a slot, every
\* running task has a call or timer it waits for, and when the run ends every
\* task is terminal, waitUntilEmpty has returned and the one notification is
\* "success".
C4_FailureContainment ==
  (\E k \in DOMAIN tstate : tstate[k] = "Failed") =>
    /\ activeCount = Cardinality(RunningTasks)
    /\ Len(queue) > 0 => activeCount = maxConcurrency
    /\ \A k \in DOMAIN tstate : tstate[k] \in {"Enqueued", "Running", "Succeeded", "Failed"}
    /\ \A i \in DOMAIN queue : tstate[queue[i]] = "Enqueued"
    /\ \A k \in DOMAIN tstate : tstate[k] = "Enqueued" => \E i \in DOMAIN queue : queue[i] = k
    /\ pc \in {"polling", "closed"}
    /\ pc = "polling" => \A k \in RunningTasks : Pending(k)
    /\ pc = "closed" =>
         /\ \A k \in DOMAIN tstate : tstate[k] \in Terminal
         /\ wpc = "returned"
         /\ notifications = <<"success">>

\* A run with more nodes than slots ended with "success" although a node failed:
\* tasks that waited in the pending list were started and finished.
C4_Witness ==
  /\ pc = "closed"
  /\ notifications = <<"success">>
  /\ Len(admitOrder) > maxConcurrency
  /\ \E k \in DOMAIN tstate : tstate[k] = "Failed"
  /\ \E k \in DOMAIN tstate : tstate[k] = "Succeeded"
  /\ Len(admitOrder) = Len(allNodes)

\* The import cache holds a Variable for the key.
Cached(key) == importedVariablesCache[key] # NullVar

Rebound(key) ==
  {c \in {<<k, slot, i>> : k \in DOMAIN slotOps, slot \in Slots, i \in 1..MaxEntries} :
     /\ c[3] \in DOMAIN slotOps[c[1]][c[2]].entries
     /\ slotOps[c[1]][c[2]].entries[c[3]].st = "rebound"
     /\ slotOps[c[1]][c[2]].entries[c[3]].key = key}

C7_Original ==
  [][/\ \A key \in Keys :
          Cached(key)
            => importedVariablesCache'[key] = importedVariablesCache[key]
     /\ \A key \in Keys : \A c, d \in Rebound(key)' :
          slotOps'[c[1]][c[2]].entries[c[3]].ret = slotOps'[d[1]][d[2]].entries[d[3]].ret]_vars

\* A paint closure takes the hit path or the miss path of getImportedVariable in
\* this step, or its import fails.
Hit(k, slot, i) ==
  /\ i \in DOMAIN slotOps[k][slot].entries
  /\ slotOps[k][slot].entries[i].st = "resolving"
  /\ slotOps'[k][slot].entries[i].st = "rebound"
Miss(k, slot, i) ==
  /\ i \in DOMAIN slotOps[k][slot].entries
  /\ slotOps[k][slot].entries[i].st = "resolving"
  /\ slotOps'[k][slot].entries[i].st = "importing"
ImportFails(k, slot, i) ==
  /\ i \in DOMAIN slotOps[k][slot].entries
  /\ slotOps[k][slot].entries[i].st = "importing"
  /\ slotOps'[k][slot].entries[i].st = "kept"

\* C8: a getImportedVariable call that finds its key in the cache returns the
\* cached Variable and requests nothing; a call whose import fails leaves the
\* whole cache as it was and returns null; and a call that does not find its key
\* requests the import, also after an earlier import of the key failed.
C8_ImportLoadContract ==
  [][\A k \in DOMAIN slotOps, slot \in Slots, i \in 1..MaxEntries :
       /\ Hit(k, slot, i) =>
            /\ Cached(slotOps'[k][slot].entries[i].key)
            /\ slotOps'[k][slot].entries[i].ret
                 = importedVariablesCache[slotOps'[k][slot].entries[i].key]
            /\ stats.importRequests' = stats.importRequests
            /\ importedVariablesCache' = importedVariablesCache
       /\ Miss(k, slot, i) =>
            /\ ~Cached(slotOps'[k][slot].entries[i].key)
            /\ stats.importRequests'[slotOps'[k][slot].entries[i].key]
                 = stats.importRequests[slotOps'[k][slot].entries[i].key] + 1
       /\ ImportFails(k, slot, i) =>
            /\ importedVariablesCache' = importedVariablesCache
            /\ slotOps'[k][slot].entries[i].ret = NullVar
            /\ slotOps'[k][slot].entries[i].paint = slotOps[k][slot].entries[i].paint]_vars

\* An import of a key failed, a later request imported the key, and a request
\* after that was served from the cache.
C8_Witness ==
  \E key \in Keys :
    /\ stats.importRequests[key] = 2
    /\ stats.importOk[key] = 1
    /\ Cached(key)
    /\ \E c \in Rebound(key) :
         slotOps[c[1]][c[2]].entries[c[3]].ret = importedVariablesCache[key]
    /\ Cardinality(Rebound(key)) >= 2
    /\ \E k \in DOMAIN slotOps, slot \in Slots, i \in 1..MaxEntries :
         /\ i \in DOMAIN slotOps[k][slot].entries
         /\ slotOps[k][slot].entries[i].key = key
         /\ slotOps[k][slot].entries[i].st = "kept"

(***************************************************************************)
(* Claims about the notifications of a run, under Spec.                    *)
(***************************************************************************)

TerminalNotifications == {"empty-selection", "catalog-not-found", "success", "generic-failure"}

\* C11: a run notifies at most once, and exactly once when it has ended; the
\* notification is one of the four terminal ones (so none is made per node); and
\* "success" is notified only after waitUntilEmpty returned, with every task
\* enqueued and terminal.
C11_SingleNotification ==
  /\ Len(notifications) <= 1
  /\ pc = "closed" <=> Len(notifications) = 1
  /\ \A i \in DOMAIN notifications : notifications[i] \in TerminalNotifications
  /\ notifications = <<"success">> =>
       /\ wpc = "returned"
       /\ queue = <<>> /\ activeCount = 0
       /\ \A k \in DOMAIN tstate : tstate[k] \in Terminal
  /\ notifications = <<"empty-selection">> <=> (pc = "closed" /\ Len(host.selection) = 0)
  /\ notifications = <<"catalog-not-found">> <=> (pc = "closed" /\ CatalogEmpty)

\* A run over several nodes, some of whose calls failed, ended with the one
\* notification "success" after three slots were written.
C11_Witness ==
  /\ pc = "closed"
  /\ notifications = <<"success">>
  /\ stats.faults = MaxFaults
  /\ stats.slotWrites >= 3
  /\ Len(allNodes) >= 4

(***************************************************************************)
(* Claims about getAllNodesInSelection, under FlatSpec.                    *)
(***************************************************************************)

RECURSIVE Depth(_)
Depth(node) == IF host.nodes[node].parent = 0 THEN 0 ELSE 1 + Depth(host.nodes[node].parent)

Pos(seq, x) == CHOOSE i \in DOMAIN seq : seq[i] = x

\* The list a node is a sibling in: the children of its parent, or the selection.
Siblings(a) ==
  IF host.nodes[a].parent = 0 THEN host.selection ELSE host.nodes[host.nodes[a].parent].children

\* The forest of the example: root 1 with children 2 (A) and 3 (B), A with
\* children 4 (A1) and 5 (A2).
ExampleForest ==
  /\ Len(host.nodes) = 5
  /\ [i \in 1..5 |-> host.nodes[i].parent] = <<0, 1, 1, 2, 2>>
  /\ host.nodes[1].children = <<2, 3>>
  /\ host.nodes[2].children = <<4, 5>>

\* C12: the list getAllNodesInSelection returns holds every node of the forest
\* exactly once, a node of depth d before every node of depth d + 1, the nodes
\* of one depth in the order of their parents in the list and then in sibling
\* order (the roots in selection order); the example gives [root, A, B, A1, A2].
C12_BfsOrder ==
  flat.pc = "returned" =>
    LET r == flat.result IN
      /\ Len(r) = Len(host.nodes)
      /\ \A n \in DOMAIN host.nodes : Cardinality({i \in DOMAIN r : r[i] = n}) = 1
      /\ \A i, j \in DOMAIN r :
           i < j =>
             /\ Depth(r[i]) <= Depth(r[j])
             /\ Depth(r[i]) = Depth(r[j]) =>
                  IF host.nodes[r[i]].parent = host.nodes[r[j]].parent
                    THEN Pos(Siblings(r[i]), r[i]) < Pos(Siblings(r[j]), r[j])
                    ELSE Pos(r, host.nodes[r[i]].parent) < Pos(r, host.nodes[r[j]].parent)
      /\ ExampleForest => r = <<1, 2, 3, 4, 5>>

\* The example forest has been flattened.
C12_Witness ==
  /\ flat.pc = "returned"
  /\ ExampleForest
  /\ flat.result = <<1, 2, 3, 4, 5>>

(***************************************************************************)
(* Claims about a second run on the same document, under TwiceSpec.        *)
(***************************************************************************)

\* The paint closures of the current run, as <<task, slot, index>>.
Closures ==
  {c \in {<<k, slot, i>> : k \in DOMAIN slotOps, slot \in Slots, i \in 1..MaxEntries} :
     c[3] \in DOMAIN slotOps[c[1]][c[2]].entries}

SecondRunAllOk == again.pass = 2 /\ stats.faults = 0

\* C13: in a second run after a first run, no remote call of either having
\* failed, no paint closure imports or rebinds (each returns its paint as it
\* found it), no slot is written, and fills and strokes of every node stay as the
\* first run left them.
C13_RebindIdempotent ==
  SecondRunAllOk =>
    /\ \A c \in Closures :
         LET e == slotOps[c[1]][c[2]].entries[c[3]] IN
           /\ e.st \in {"resolving", "kept"}
           /\ e.paint = again.doc[allNodes[c[1]]][c[2]][c[3]]
    /\ \A n \in DOMAIN doc : \A slot \in Slots : doc[n][slot] = again.doc[n][slot]
    /\ stats.slotWrites = again.slotWrites

\* A second run ended after a first run that rebound paints; it found paints
\* bound to variables of Web and to others.
C13_Witness ==
  /\ SecondRunAllOk
  /\ pc = "closed"
  /\ notifications = <<"success">>
  /\ again.slotWrites >= 2
  /\ \E c \in Closures : slotOps[c[1]][c[2]].entries[c[3]].paint.bound \in {"wa", "wb"}
  /\ \E c \in Closures : slotOps[c[1]][c[2]].entries[c[3]].paint.bound \in {"vx", "gone"}

(***************************************************************************)
(* Claims about the pipeline of a node, under Spec.                        *)
(***************************************************************************)

\* What rebinding makes of a paint when every call succeeds: a SOLID paint bound
\* to a variable the file knows, whose name the library has, is bound to the
\* imported variable of that name; any other paint stays.
Rebindable(paint) ==
  /\ paint.type = "SOLID"
  /\ paint.bound # "none"
  /\ VariableById(paint.bound) # NullVar
  /\ \E i \in DOMAIN host.libVars : host.libVars[i].name = VariableById(paint.bound).name

TargetOf(paint) ==
  IF Rebindable(paint)
    THEN LET name == VariableById(paint.bound).name
             libVar == host.libVars[CHOOSE i \in DOMAIN host.libVars : host.libVars[i].name = name] IN
           [paint EXCEPT !.bound = ImportOf(libVar.key, 0).id]
    ELSE paint

\* The d-th ancestor of a node, 0 above the root.
RECURSIVE AncestorAt(_, _)
AncestorAt(node, d) ==
  IF node = 0 THEN 0
  ELSE IF d = 1 THEN host.nodes[node].parent
  ELSE AncestorAt(host.nodes[node].parent, d - 1)

\* The node of a task has an INSTANCE among its ancestors.
Nested(k) == \E a \in DOMAIN host.nodes : host.nodes[a].type = "INSTANCE" /\ a # allNodes[k] /\
               \E d \in 1..Len(host.nodes) : AncestorAt(allNodes[k], d) = a

\* C14: for a node below an INSTANCE no collection is looked up and no mode is
\* cleared or set (reassignVariableModes is not entered and the mapping stays),
\* while its paints are rebound as those of any node: when no call failed a
\* finished task has left every slot of its node with the rebound paints.
C14_InstanceNesting ==
  /\ \A k \in DOMAIN tstate :
       Nested(k) =>
         /\ modeOps[k].lookups = <<>>
         /\ modeOps[k].phase \in {"idle", "paints", "done"}
         /\ doc[allNodes[k]].modes = host.doc0[allNodes[k]].modes
  /\ \A k \in DOMAIN tstate :
       (tstate[k] = "Succeeded" /\ stats.faults = 0) =>
         \A slot \in Slots \cap host.nodes[allNodes[k]].caps :
           doc[allNodes[k]][slot] =
             [i \in DOMAIN host.doc0[allNodes[k]][slot] |-> TargetOf(host.doc0[allNodes[k]][slot][i])]

\* The run of the nested scene ended: the rectangle two levels below the instance
\* is rebound and keeps its override, the instance itself lost it to Web.
C14_Witness ==
  /\ host.nodes = SceneNested.nodes
  /\ pc = "closed"
  /\ stats.faults = 0
  /\ doc[3].fills = <<Solid("wb")>>
  /\ doc[3].modes = <<Mode("Old", "m3")>>
  /\ doc[1].modes = <<Mode("Web", "m1")>>

(***************************************************************************)
(* Claims about reassignVariableModes, under Spec.                         *)
(***************************************************************************)

\* The tasks whose reassignVariableModes call has returned after its lookups,
\* main having resolved the collection of Web.
Reassigned ==
  {k \in DOMAIN tstate :
     /\ tstate[k] = "Succeeded"
     /\ modeOps[k].lookups # <<>>
     /\ webCollection # "null"}

\* The mode ids a node has on a collection.
ModesOn(modes, coll) == {modes[i].mode : i \in {j \in DOMAIN modes : modes[j].coll = coll}}

\* The target of the relocation holds a mode id of the old mapping M.
OnTarget(k) ==
  LET M == host.doc0[allNodes[k]].modes
      now == doc[allNodes[k]].modes IN
    /\ Cardinality(ModesOn(now, webCollection)) = 1
    /\ ModesOn(now, webCollection) \subseteq {M[i].mode : i \in DOMAIN M}

\* C15 as stated: after the reassignment no collection of the old mapping other
\* than the target has an explicit mode on the node.
C15_Original ==
  \A k \in Reassigned :
    LET M == host.doc0[allNodes[k]].modes IN
      /\ \A i \in DOMAIN M :
           M[i].coll # webCollection => ModesOn(doc[allNodes[k]].modes, M[i].coll) = {}
      /\ OnTarget(k)

\* C15 (amended): after the reassignment the node has no explicit mode on a
\* collection of the old mapping, other than the target, whose lookup returned a
\* collection; an entry whose lookup failed or returned null keeps its mode; and
\* the mode on the target is a mode id of the old mapping.
C15_ModeRelocation ==
  \A k \in Reassigned :
    LET M == host.doc0[allNodes[k]].modes
        now == doc[allNodes[k]].modes
        lookups == modeOps[k].lookups IN
      /\ DOMAIN lookups = DOMAIN M
      /\ \A i \in DOMAIN M :
           /\ lookups[i].coll = M[i].coll
           /\ lookups[i].result \in {"null", CollectionById(M[i].coll)}
           /\ M[i].coll # webCollection =>
                ModesOn(now, M[i].coll) = IF lookups[i].result = "null" THEN {M[i].mode} ELSE {}
      /\ OnTarget(k)

\* A node had overrides on a collection the file still has and on one it has
\* lost: the first moved to Web, the second stayed.
C15_Witness ==
  \E k \in Reassigned :
    /\ host.doc0[allNodes[k]].modes = <<Mode("Old", "m1"), Mode("Lost", "m2")>>
    /\ doc[allNodes[k]].modes = <<Mode("Lost", "m2"), Mode("Web", "m2")>>
    /\ stats.faults = 0

(***************************************************************************)
(* Claims about processNodesInChunks, under ChunkSpec.                     *)
(***************************************************************************)

CeilDiv(n, d) == (n + d - 1) \div d

\* What main leaves when it submits all the nodes as one group, from the state
\* in which it waits for the collection of Web.
SingleGroup ==
  LET key == cachedWebVariablesMap.entries[1].key
      R0 == [RunObj EXCEPT !.mainCall = IdleCall,
                           !.webCollection =
                              CollectionById(importedVariablesCache[key].variableCollectionId)]
      R1 == chunkLoop(R0, 0, Len(allNodes)) IN
    settle([R1 EXCEPT !.pc = "polling", !.wpc = "polling"])

\* C16: once the nodes are submitted, ceil(N / S) groups were formed, every node
\* has its task, the tasks were and will be started in the order of the
\* flattened list, never more than maxConcurrency at a time and with no free slot
\* while a task is pending, and at the end every task has finished; the
\* submission leaves the queue, the tasks and the document as the submission of
\* one group of N does.
C16_ChunkingEquivalence ==
  /\ [](pc \in {"polling", "closed"} =>
          /\ stats.chunks = CeilDiv(Len(allNodes), chunkSize)
          /\ admitOrder \o queue = [i \in 1..Len(allNodes) |-> i]
          /\ \A k \in DOMAIN tstate : tstate[k] # "New"
          /\ activeCount = Cardinality(RunningTasks)
          /\ activeCount <= maxConcurrency
          /\ queue # <<>> => activeCount = maxConcurrency
          /\ pc = "closed" => \A k \in DOMAIN tstate : tstate[k] = "Succeeded")
  /\ [][(pc = "webColl" /\ pc' = "polling") =>
          /\ queue' = SingleGroup.queue
          /\ activeCount' = SingleGroup.activeCount
          /\ tstate' = SingleGroup.tstate
          /\ admitOrder' = SingleGroup.admitOrder
          /\ slotOps' = SingleGroup.slotOps
          /\ modeOps' = SingleGroup.modeOps
          /\ doc' = SingleGroup.doc
          /\ stats'.resolveRequests = SingleGroup.stats.resolveRequests]_vars

\* Seven nodes were submitted in three groups of three, three and one: five tasks
\* run and two wait.
C16_Witness ==
  /\ pc = "polling"
  /\ Len(allNodes) = 7
  /\ chunkSize = 3
  /\ stats.chunks = 3
  /\ activeCount = 5
  /\ queue = <<6, 7>>

(***************************************************************************)
(* Claims about the remote requests of the tasks, under Spec.              *)
(***************************************************************************)

\* The remote calls of the node tasks the host has not answered yet.
InFlight ==
  Cardinality({c \in Closures : slotOps[c[1]][c[2]].entries[c[3]].call.st = "inflight"})
  + Cardinality({c \in {<<k, j>> : k \in DOMAIN modeOps, j \in 1..MaxEntries} :
                   /\ c[2] \in DOMAIN modeOps[c[1]].lookups
                   /\ modeOps[c[1]].lookups[c[2]].call.st = "inflight"})

\* C17 as stated: never more than MAX_CONCURRENT_REQUESTS remote requests of
\* the node tasks are in flight.
C17_Original == InFlight <= MAX_CONCURRENT_REQUESTS

(***************************************************************************)
(* Claims about failures inside the pipeline of a node, under Spec.        *)
(***************************************************************************)

\* processPaints of a task's slot has ended (returned or thrown) and so has
\* every closure of it.
SlotEnded(k, slot) ==
  /\ slotOps[k][slot].st \in {"done", "rejected"}
  /\ \A i \in DOMAIN slotOps[k][slot].entries :
       slotOps[k][slot].entries[i].st \in {"kept", "rebound", "failed"}

\* C18 as stated: when the rebinding of a slot has ended, an entry that was
\* resolved, matched and imported is bound to the imported variable in the
\* node's slot, and every other entry is as it was, whatever happened to the
\* other entries of the slot.
C18_Original ==
  \A k \in DOMAIN slotOps : \A slot \in Slots :
    SlotEnded(k, slot) =>
      \A i \in DOMAIN slotOps[k][slot].entries :
        LET e == slotOps[k][slot].entries[i]
            before == host.doc0[allNodes[k]][slot][i] IN
          doc[allNodes[k]][slot][i] =
            IF e.st = "rebound" THEN setBoundVariableForPaint(before, e.ret) ELSE before

\* The node of a task has explicit modes that reassignVariableModes would move.
ModeHost(k) ==
  /\ ~Nested(k)
  /\ "modes" \in host.nodes[allNodes[k]].caps
  /\ host.doc0[allNodes[k]].modes # <<>>

\* C19 as stated: the task of a node with explicit modes, not below an instance,
\* does not end without the mode reassignment (the lookups of its collections),
\* also when the rebinding of a slot failed; and when one slot's rebinding
\* failed, the other slot, once ended, holds its rebound paints.
C19_Original ==
  \A k \in DOMAIN tstate :
    /\ (ModeHost(k) /\ tstate[k] \in Terminal) => modeOps[k].lookups # <<>>
    /\ \A s, t \in Slots :
         (s # t /\ slotOps[k][s].st = "rejected" /\ SlotEnded(k, t) /\ slotOps[k][t].st = "done") =>
           \A i \in DOMAIN slotOps[k][t].entries :
             doc[allNodes[k]][t][i] = slotOps[k][t].entries[i].paint

\* C20 as stated: a node whose explicit mapping was not empty when the run began
\* has at least one explicit mode in every state of the run, also when
\* webCollection is null or a lookup of a collection failed.
C20_Original ==
  \A n \in DOMAIN doc : host.doc0[n].modes # <<>> => doc[n].modes # <<>>

(***************************************************************************)
(* The run under fair scheduling: every call answers, every timer fires    *)
(***************************************************************************)

\* The host fails calls made for the first MaxFailingTasks nodes only.
MaxFailingTasks == 1

\* The plugin is loaded on a file whose selection is empty, one with nested
\* overrides, or one with more nodes than the queue runs at once.
LiveInit ==
  /\ rt = RtIdle
  /\ flat = FlatIdle
  /\ host \in {HostOf("part_000", lib, scene) :
                 lib \in Libraries, scene \in {SceneEmpty, SceneNested, SceneMany}}
  /\ pc = "init"
  /\ load = IdleLoad
  /\ mainCall = IdleCall
  /\ cachedWebVariablesMap = NullMap
  /\ importedVariablesCache = [k \in Keys |-> NullVar]
  /\ webCollection = "null"
  /\ notifications = <<>>
  /\ doc = host.doc0
  /\ slotOps = [k \in DOMAIN allNodes |-> [fills |-> IdleSlot, strokes |-> IdleSlot]]
  /\ modeOps = [k \in DOMAIN allNodes |-> IdleTask]
  /\ stats = ZeroStats
  /\ again = FirstRun
  /\ chunkSize = CHUNK_SIZE
  /\ maxConcurrency = MAX_CONCURRENT_REQUESTS
  /\ queue = <<>>
  /\ activeCount = 0
  /\ tstate = [k \in DOMAIN allNodes |-> "New"]
  /\ spawnedBy = [k \in DOMAIN allNodes |-> 0]
  /\ admitOrder = <<>>
  /\ wpc = "idle"
  /\ enqueuedWhile = [k \in DOMAIN allNodes |-> "idle"]

\* A remote call fails with the given status, however often calls failed
\* before: only the retries left of withRetry decide whether it is called again.
LoadFails(status) ==
  /\ pc # "closed"
  /\ load.pc \in {"libs", "vars"}
  /\ load.call.st = "inflight"
  /\ SetRun(resumeMain(loadRejected(RunObj, status)))

MainCallFails(status) ==
  /\ pc \in {"firstImport", "webColl"}
  /\ mainCall.st = "inflight"
  /\ SetRun(mainCallRejected(RunObj, status))

EntryFails(k, slot, i, status) ==
  /\ pc = "polling"
  /\ k <= MaxFailingTasks
  /\ i \in DOMAIN slotOps[k][slot].entries
  /\ slotOps[k][slot].entries[i].call.st = "inflight"
  /\ SetRun(settle(entryRejected(RunObj, k, slot, i, status)))

LookupFails(k, j, status) ==
  /\ pc = "polling"
  /\ k <= MaxFailingTasks
  /\ j \in DOMAIN modeOps[k].lookups
  /\ modeOps[k].lookups[j].call.st = "inflight"
  /\ LET c == rejected(modeOps[k].lookups[j].call, status) IN
       SetRun(settle([RunObj EXCEPT !.modeOps[k].lookups[j].call =
                                      IF c.st = "waiting" THEN c ELSE IdleCall]))

LiveNext ==
  \/ Start
  \/ LoadOk
  \/ \E status \in RunStatuses : LoadFails(status)
  \/ LoadTimer
  \/ MainCallOk
  \/ \E status \in RunStatuses : MainCallFails(status)
  \/ MainTimer
  \/ \E k \in DOMAIN tstate, slot \in Slots, i \in 1..MaxEntries : EntryResolveOk(k, slot, i)
  \/ \E k \in DOMAIN tstate, slot \in Slots, i \in 1..MaxEntries : EntryImportOk(k, slot, i)
  \/ \E k \in DOMAIN tstate, slot \in Slots, i \in 1..MaxEntries, status \in RunStatuses :
       EntryFails(k, slot, i, status)
  \/ \E k \in DOMAIN tstate, slot \in Slots, i \in 1..MaxEntries : EntryTimer(k, slot, i)
  \/ \E k \in DOMAIN tstate, j \in 1..MaxEntries : LookupOk(k, j)
  \/ \E k \in DOMAIN tstate, j \in 1..MaxEntries, status \in RunStatuses : LookupFails(k, j, status)
  \/ \E k \in DOMAIN tstate, j \in 1..MaxEntries : LookupTimer(k, j)
  \/ Poll

\* A remote call is answered: it returns or it fails.
Answer ==
  \/ LoadOk
  \/ \E status \in RunStatuses : LoadFails(status)
  \/ MainCallOk
  \/ \E status \in RunStatuses : MainCallFails(status)
  \/ \E k \in DOMAIN tstate, slot \in Slots, i \in 1..MaxEntries : EntryResolveOk(k, slot, i)
  \/ \E k \in DOMAIN tstate, slot \in Slots, i \in 1..MaxEntries : EntryImportOk(k, slot, i)
  \/ \E k \in DOMAIN tstate, slot \in Slots, i \in 1..MaxEntries, status \in RunStatuses :
       EntryFails(k, slot, i, status)
  \/ \E k \in DOMAIN tstate, j \in 1..MaxEntries : LookupOk(k, j)
  \/ \E k \in DOMAIN tstate, j \in 1..MaxEntries, status \in RunStatuses : LookupFails(k, j, status)

\* The guards of the actions of Answer: a remote call is in flight and the
\* plugin still listens to it.
AnswerReady ==
  \/ pc # "closed" /\ load.pc \in {"libs", "vars"} /\ load.call.st = "inflight"
  \/ pc \in {"firstImport", "webColl"} /\ mainCall.st = "inflight"
  \/ /\ pc = "polling"
     /\ \/ \E k \in DOMAIN slotOps, slot \in Slots : \E i \in DOMAIN slotOps[k][slot].entries :
             slotOps[k][slot].entries[i].call.st = "inflight"
        \/ \E k \in DOMAIN modeOps : \E j \in DOMAIN modeOps[k].lookups :
             modeOps[k].lookups[j].call.st = "inflight"

\* A timer set by wait(delayMs) fires.
Timer ==
  \/ LoadTimer
  \/ MainTimer
  \/ \E k \in DOMAIN tstate, slot \in Slots, i \in 1..MaxEntries : EntryTimer(k, slot, i)
  \/ \E k \in DOMAIN tstate, j \in 1..MaxEntries : LookupTimer(k, j)

\* The plugin code is started, the timers of wait and of waitUntilEmpty fire,
\* and remote calls are answered.  The last conjunct is weak fairness of Answer
\* with its enabling condition written out as AnswerReady.
LiveFairness ==
  /\ WF_vars(Start)
  /\ WF_vars(Timer)
  /\ WF_vars(Poll)
  /\ ([]<>(~AnswerReady) \/ []<><<Answer>>_vars)

LiveSpec == LiveInit /\ [][LiveNext]_vars /\ LiveFairness


(***************************************************************************)
(* Termination of the run, under LiveSpec.                                 *)
(***************************************************************************)

\* withRetry(fn) has not returned or thrown yet: fn() is in flight or the
\* backoff timer is set.
Active(call) == call.st \in {"inflight", "waiting"}

\* The retries left of a withRetry call never go below 0: fn is called at most
\* DEFAULT_RETRIES + 1 times, and the delay doubles at most DEFAULT_RETRIES times.
Bounded(call) ==
  Active(call) =>
    /\ call.retries \in 0..DEFAULT_RETRIES
    /\ \E n \in 0..DEFAULT_RETRIES :
         call.retries = DEFAULT_RETRIES - n /\ call.delayMs = DEFAULT_DELAY_MS * Pow2(n)

Notified == notifications \in {<<m>> : m \in TerminalNotifications}

AttemptsBounded ==
  /\ Bounded(load.call)
  /\ Bounded(mainCall)
  /\ \A k \in DOMAIN slotOps, slot \in Slots : \A i \in DOMAIN slotOps[k][slot].entries :
       Bounded(slotOps[k][slot].entries[i].call)
  /\ \A k \in DOMAIN modeOps : \A j \in DOMAIN modeOps[k].lookups :
       Bounded(modeOps[k].lookups[j].call)

Closed == pc = "closed"

\* No task is pending or running, no caller waits in waitUntilEmpty, and the
\* plugin has notified once, with a terminal notification, and closed.
Terminated ==
  /\ Closed
  /\ Notified
  /\ wpc # "polling"
  /\ \A k \in DOMAIN tstate : tstate[k] \notin {"Enqueued", "Running"}

\* A task never goes back: an enqueued task stays enqueued until it is admitted,
\* an admitted one runs until it has ended, an ended one is not changed.
TaskProgress ==
  \A k \in DOMAIN tstate :
    /\ tstate[k] = "Enqueued" => tstate'[k] \in {"Enqueued", "Running"} \cup Terminal
    /\ tstate[k] = "Running" => tstate'[k] \in {"Running"} \cup Terminal
    /\ tstate[k] \in Terminal => tstate'[k] = tstate[k]

\* C21: when every remote call is answered and every timer fires, no withRetry
\* call makes more than DEFAULT_RETRIES + 1 attempts, tasks only move forward
\* (enqueued, admitted, Succeeded or Failed), and the run reaches, and stays in,
\* a state where the terminal notification was emitted, waitUntilEmpty has
\* returned if it was called, and every task that was enqueued was admitted and
\* has ended.
C21_RunTermination ==
  /\ []AttemptsBounded
  /\ [][TaskProgress]_vars
  /\ <>[]Terminated

\* A run of more tasks than the queue runs at once has ended with the success
\* notification: waitUntilEmpty returned, every task was admitted and ended,
\* one of them failed.
C21_Witness ==
  /\ Closed
  /\ notifications = <<"success">>
  /\ wpc = "returned"
  /\ Len(admitOrder) > MAX_CONCURRENT_REQUESTS
  /\ \A k \in DOMAIN tstate : tstate[k] \in Terminal
  /\ \E k \in DOMAIN tstate : tstate[k] = "Failed"

====
